---------------------------- MODULE Spec2Model ----------------------------
(***************************************************************************)
(* Verification model of the WSJT-X MCP server (SensorsIot/wsjt-x-MCP).    *)
(*                                                                         *)
(* Components, each translated from its source file:                       *)
(*   - ProcessManager / WsjtxProcess   (src/src/wsjtx/ProcessManager.ts)   *)
(*   - Vita49Client                    (src/unnamed/part_001)              *)
(*   - HrdCatServer                    (src/unnamed/part_002)              *)
(*   - SliceMasterLogic                (src/unnamed/part_004)              *)
(*   - WsjtxManager                    (src/src/wsjtx/WsjtxManager.ts)     *)
(*   - WsjtxMcpServer tools            (src/unnamed/part_007)              *)
(*   - CatServer (Kenwood TS-2000)     (src/src/flex/CatServer.ts)         *)
(*   - WsjtxUdpListener                (src/unnamed/part_005)              *)
(*   - UdpSender                       (src/unnamed/part_006)              *)
(*   - QsoStateMachine: its file is not in the source tree; it is modelled *)
(*     from section 4.8 of the specification.                              *)
(***************************************************************************)
EXTENDS Integers, Sequences, FiniteSets, TLC

\* ------------------------------------------------------------------ bounds
\* Number of slices the radio reports (indexes 0..NumSlices-1).
NumSlices == 2
\* How many times the supervisor may spawn a child over one run.
MaxStarts == 2
\* How many force-kill timers may be pending for one instance.
MaxTimers == 2

\* Largest command sequence number the radio client may use.
MaxSeq == 6
\* Most key=value pairs in one slice status message.
MaxKeys == 2
\* Most handleSliceAdded calls of one slice waiting in their await.
MaxPending == 1

\* Most QsoStateMachine objects constructed over one run.
MaxQsos == 2

\* Most characters a Kenwood CAT connection may hold back as an unfinished
\* command.
MaxBuffer == 6

\* Slice messages one read of the radio socket may hold.
MaxPerRead == 1

\* Bytes a HRD connection may hold of a message that is not complete yet.
MaxHrdBuffer == 20

\* ------------------------------------------------------- program constants
\* ProcessManager.nextPort starts here.
BaseUdpPort == 2237

\* The port WsjtxManager binds its WsjtxUdpListener on.
ListenerPort == 2237

\* The port WsjtxManager constructs its UdpSender with: UdpSender.targetPort.
targetPort == 2237

Slices == 0 .. (NumSlices - 1)

\* getSliceLetter / instanceName = `Slice-${sliceLetter}`
InstanceNameOf(i) == IF i = 0 THEN "Slice-A"
                     ELSE IF i = 1 THEN "Slice-B"
                     ELSE IF i = 2 THEN "Slice-C" ELSE "Slice-D"

\* Names an operator or the coordinator may use for an instance.
Names == { InstanceNameOf(i) : i \in Slices }

VARIABLES
    \* ---- ProcessManager / WsjtxProcess
    instances,      \* ProcessManager.instances: names registered
    process,        \* WsjtxProcess.process per name: "null" | "child"
    killed,         \* ChildProcess.killed of the instance's child
    child,          \* the OS process: "none" | "running" | "exited" | "spawnfail"
    signals,        \* the signals delivered to the instance's current child
    killTimers,     \* pending 5 s force-kill timers of the instance
    nextPort,       \* ProcessManager.nextPort
    udpPort,        \* WsjtxProcess.udpPort per name
    stoppedEvents,  \* number of 'instance-stopped' emitted per name
    \* ---- Vita49Client
    conn,           \* the TCP session: "idle" | "connecting" | "up" | "closed"
    commandSeq,     \* Vita49Client.commandSeq
    lastWrites,     \* what the latest handler that asked the client to send
                    \* a command wrote to the radio socket
    slices,         \* Vita49Client.slices, by slice index
    lastEvents,     \* the events the latest push message emitted, in order
    \* ---- SliceMasterLogic and its HrdCatServers
    sliceToInstance,\* slice indexes that have an entry in sliceToInstance
    sliceIndexMap,  \* slice indexes that have an entry in sliceIndexMap
    catServers,     \* slice indexes that have an entry in catServers
    catListening,   \* slice indexes whose CAT port has a listening server
    catFrequency,   \* HrdCatServer.frequency of the listening server
    catMode,        \* HrdCatServer.mode
    pttState,       \* HrdCatServer.pttState
    pendingAdds,    \* handleSliceAdded calls waiting in `await startCatServer`
    masterEvent,    \* the latest 'instance-launched' or 'instance-stopped'
                    \* SliceMasterLogic emitted
    hrdClients,     \* slices whose HrdCatServer has a client connected
    hrdBuffer,      \* `buffer` of that connection (bytes not yet consumed)
    hrdSent,        \* the frames the latest 'data' event wrote to its socket
    \* ---- CatServer (Kenwood TS-2000 dialect), one per slice
    sliceState,     \* CatServer.state: frequency, mode, tx
    clients,        \* slices whose CatServer has a client connected
    buffer,         \* `buffer` of that connection (text not yet consumed)
    written,        \* the responses the latest 'data' event wrote to its socket
    \* ---- WsjtxUdpListener and UdpSender
    datagram,       \* the latest datagram the listener received
    emitted,        \* the events the listener emitted for it
    replyPacket,    \* the latest packet UdpSender.sendReply sent
    \* ---- WsjtxManager and its QsoStateMachines
    activeQsos,     \* WsjtxManager.activeQsos: instance id -> QSO (0: no entry)
    qsoInstance,    \* QsoConfig.instanceId of each QsoStateMachine created
    qsoState,       \* its state ("none": not created yet)
    qsoRetries,     \* its retry count
    qsoEvents,      \* 'qso-complete' and 'qso-failed' the manager emitted for it
    udpOut,         \* the datagrams the latest tool call sent with UdpSender
    exited,         \* process.exit was called
    \* ---- WsjtxMcpServer
    toolResult      \* what the last tool call returned to the operator

procVars == <<instances, process, killed, child, signals, killTimers,
              nextPort, udpPort, stoppedEvents>>

clientVars == <<conn, commandSeq, lastWrites, slices, lastEvents>>

masterVars == <<sliceToInstance, sliceIndexMap, catServers, catListening,
                catFrequency, catMode, pttState, pendingAdds, masterEvent,
                hrdClients, hrdBuffer>>

kenwoodVars == <<sliceState, clients, buffer, written>>

udpVars == <<datagram, emitted, replyPacket>>

\* What the wire-level handlers alone change.
wireVars == <<kenwoodVars, udpVars, hrdSent>>

vars == <<instances, process, killed, child, signals, killTimers,
          nextPort, udpPort, stoppedEvents,
          conn, commandSeq, lastWrites, slices, lastEvents,
          sliceToInstance, sliceIndexMap, catServers, catListening,
          catFrequency, catMode, pttState, pendingAdds, masterEvent,
          hrdClients, hrdBuffer, hrdSent,
          sliceState, clients, buffer, written,
          datagram, emitted, replyPacket,
          activeQsos, qsoInstance, qsoState, qsoRetries, qsoEvents,
          udpOut, exited, toolResult>>

qsoVars == <<activeQsos, qsoInstance, qsoState, qsoRetries, qsoEvents>>

\* Everything but the Process Supervisor's variables and the tool result.
nonProcVars == <<clientVars, masterVars, qsoVars, udpOut, exited, wireVars>>

\* Everything but the radio client's, the coordinator's and the supervisor's.
nonRadioVars == <<qsoVars, udpOut, exited, wireVars>>

\* Node runs a handler to completion, and the continuation of an awaited
\* promise before the next I/O, timer or process event is dispatched.
\* Nothing runs after process.exit.
loopIdle == ~exited /\ \A i \in Slices : pendingAdds[i] = <<>>

NoResult == [tool |-> "none", name |-> "", isError |-> FALSE]
Result(t, n, e) == [tool |-> t, name |-> n, isError |-> e]

\* ======================================================================
\* JavaScript strings and numbers, as the handlers use them
\* ======================================================================

Min(a, b) == IF a < b THEN a ELSE b
Max(a, b) == IF a > b THEN a ELSE b

\* String.substring(a, b): indexes are clamped to the string and swapped
\* when a > b.
substring(s, a, b) ==
    LET x == Max(0, Min(a, Len(s)))
        y == Max(0, Min(b, Len(s)))
    IN SubSeq(s, Min(x, y) + 1, Max(x, y))

\* String.substring(a)
substringFrom(s, a) == substring(s, a, Len(s))

charAt(s, k) == substring(s, k, k + 1)

startsWith(s, prefix) == substring(s, 0, Len(prefix)) = prefix

\* String.indexOf(c, k) for a one-character c; -1 when absent.
RECURSIVE indexOfFrom(_, _, _)
indexOfFrom(s, c, k) ==
    IF k >= Len(s) THEN -1
    ELSE IF SubSeq(s, k + 1, k + 1) = c THEN k
         ELSE indexOfFrom(s, c, k + 1)

indexOf(s, c) == indexOfFrom(s, c, 0)

LowerLetters == "abcdefghijklmnopqrstuvwxyz"
UpperLetters == "ABCDEFGHIJKLMNOPQRSTUVWXYZ"
Digits == "0123456789"

isDigit(c) == c # "" /\ indexOf(Digits, c) # -1
isUpper(c) == c # "" /\ indexOf(UpperLetters, c) # -1
isSpace(c) == c \in {" ", "\t", "\n", "\r"}

upperChar(c) ==
    IF indexOf(LowerLetters, c) # -1
    THEN charAt(UpperLetters, indexOf(LowerLetters, c)) ELSE c

lowerChar(c) ==
    IF indexOf(UpperLetters, c) # -1
    THEN charAt(LowerLetters, indexOf(UpperLetters, c)) ELSE c

\* String.toUpperCase, String.toLowerCase
RECURSIVE toUpperCase(_)
toUpperCase(s) ==
    IF s = "" THEN ""
    ELSE upperChar(charAt(s, 0)) \o toUpperCase(substringFrom(s, 1))

RECURSIVE toLowerCase(_)
toLowerCase(s) ==
    IF s = "" THEN ""
    ELSE lowerChar(charAt(s, 0)) \o toLowerCase(substringFrom(s, 1))

\* String.trim
RECURSIVE trimStart(_)
trimStart(s) ==
    IF s # "" /\ isSpace(charAt(s, 0)) THEN trimStart(substringFrom(s, 1))
    ELSE s

RECURSIVE trimEnd(_)
trimEnd(s) ==
    IF s # "" /\ isSpace(charAt(s, Len(s) - 1))
    THEN trimEnd(substring(s, 0, Len(s) - 1))
    ELSE s

trim(s) == trimEnd(trimStart(s))

\* String.padStart(n, c)
RECURSIVE padStart(_, _, _)
padStart(s, n, c) == IF Len(s) >= n THEN s ELSE padStart(c \o s, n, c)

\* The digits a string starts with: how many, and their value.
RECURSIVE leadingDigits(_, _, _)
leadingDigits(s, count, value) ==
    IF s # "" /\ isDigit(charAt(s, 0))
    THEN leadingDigits(substringFrom(s, 1), count + 1,
                       value * 10 + indexOf(Digits, charAt(s, 0)))
    ELSE [count |-> count, value |-> value]

\* parseInt(s, 10): leading white space, a sign, then digits; NaN when no
\* digit follows.
parseInt(s) ==
    LET t == trimStart(s)
        signed == t # "" /\ charAt(t, 0) \in {"-", "+"}
        d == leadingDigits(IF signed THEN substringFrom(t, 1) ELSE t, 0, 0)
    IN [nan |-> d.count = 0,
        n |-> IF signed /\ charAt(t, 0) = "-" THEN 0 - d.value ELSE d.value]

\* String.split(/\s+/): the pieces between runs of white space.
RECURSIVE splitSpaces(_, _, _)
splitSpaces(s, piece, pieces) ==
    IF s = "" THEN Append(pieces, piece)
    ELSE IF isSpace(charAt(s, 0))
         THEN splitSpaces(trimStart(s), "", Append(pieces, piece))
         ELSE splitSpaces(substringFrom(s, 1), piece \o charAt(s, 0), pieces)

\* String.split(sep) for a one-character separator: every piece, the empty
\* ones included.
RECURSIVE splitFrom(_, _, _, _)
splitFrom(s, sep, piece, pieces) ==
    IF s = "" THEN Append(pieces, piece)
    ELSE IF charAt(s, 0) = sep
         THEN splitFrom(substringFrom(s, 1), sep, "", Append(pieces, piece))
         ELSE splitFrom(substringFrom(s, 1), sep, piece \o charAt(s, 0), pieces)

split(s, sep) == splitFrom(s, sep, "", <<>>)

\* String.split(' ').pop(): what follows the last blank.
RECURSIVE afterLastBlank(_, _)
afterLastBlank(s, piece) ==
    IF s = "" THEN piece
    ELSE IF charAt(s, 0) = " " THEN afterLastBlank(substringFrom(s, 1), "")
         ELSE afterLastBlank(substringFrom(s, 1), piece \o charAt(s, 0))

\* ======================================================================
\* ProcessManager / WsjtxProcess
\* ======================================================================

InitProc ==
    /\ instances = {}
    /\ process = [n \in Names |-> "null"]
    /\ killed = [n \in Names |-> FALSE]
    /\ child = [n \in Names |-> "none"]
    /\ signals = [n \in Names |-> {}]
    /\ killTimers = [n \in Names |-> 0]
    /\ nextPort = BaseUdpPort
    /\ udpPort = [n \in Names |-> 0]
    /\ stoppedEvents = [n \in Names |-> 0]

\* WsjtxProcess.isRunning
isRunning(n) == process[n] # "null" /\ ~killed[n]

\* ChildProcess.kill(sig): the signal is delivered, and `killed` set, when the
\* child still has a handle (it was spawned and its exit has not been reaped).
hasHandle(n) == child[n] \in {"running", "exited"}

\* ProcessManager.startInstance: the guard that makes it throw.
startInstanceThrows(n) == n \in instances

\* ProcessManager.startInstance + WsjtxProcess.start, for a name not yet
\* registered.  spawned = FALSE is a spawn that fails (ENOENT, EACCES): the
\* ChildProcess object exists, 'error' is emitted and no 'exit' follows.
startInstance(n, spawned) ==
    /\ ~startInstanceThrows(n)
    /\ nextPort < BaseUdpPort + MaxStarts
    /\ udpPort' = [udpPort EXCEPT ![n] = nextPort]
    /\ nextPort' = nextPort + 1
    /\ instances' = instances \cup {n}
    /\ process' = [process EXCEPT ![n] = "child"]
    /\ child' = [child EXCEPT ![n] = IF spawned THEN "running" ELSE "spawnfail"]
    /\ killed' = [killed EXCEPT ![n] = FALSE]
    /\ signals' = [signals EXCEPT ![n] = {}]
    /\ killTimers' = [killTimers EXCEPT ![n] = 0]
    /\ UNCHANGED stoppedEvents

\* WsjtxProcess.stop: SIGTERM now, and a timer that fires 5 s later.
processStop(n) ==
    IF process[n] # "null"
    THEN /\ killTimers[n] < MaxTimers
         /\ signals' = [signals EXCEPT ![n] =
                           IF hasHandle(n) THEN @ \cup {"SIGTERM"} ELSE @]
         /\ killed' = [killed EXCEPT ![n] = IF hasHandle(n) THEN TRUE ELSE @]
         /\ killTimers' = [killTimers EXCEPT ![n] = @ + 1]
    ELSE UNCHANGED <<signals, killed, killTimers>>

\* ProcessManager.stopInstance: false for an unknown name, else stop and true.
stopInstanceReturns(n) == n \in instances

\* Variant of stopInstance: the instance is also deleted from the registry.
stopInstanceAndDelete(n) ==
    /\ IF n \in instances
       THEN processStop(n)
       ELSE UNCHANGED <<signals, killed, killTimers>>
    /\ instances' = instances \ {n}
    /\ UNCHANGED <<process, child, nextPort, udpPort, stoppedEvents>>

stopInstance(n) ==
    /\ IF n \in instances
       THEN processStop(n)
       ELSE UNCHANGED <<signals, killed, killTimers>>
    /\ UNCHANGED <<instances, process, child, nextPort, udpPort, stoppedEvents>>

\* The force-kill condition of the timer callback in WsjtxProcess.stop.
forceKillDue(n) == process[n] # "null" /\ ~killed[n]

\* The callback of the 5 s timer set by WsjtxProcess.stop.
KillTimerFires(n) ==
    /\ loopIdle
    /\ killTimers[n] > 0
    /\ killTimers' = [killTimers EXCEPT ![n] = @ - 1]
    /\ IF forceKillDue(n) /\ hasHandle(n)
       THEN /\ signals' = [signals EXCEPT ![n] = @ \cup {"SIGKILL"}]
            /\ killed' = [killed EXCEPT ![n] = TRUE]
       ELSE UNCHANGED <<signals, killed>>
    /\ UNCHANGED <<instances, process, child, nextPort, udpPort, stoppedEvents,
                   toolResult>>
    /\ UNCHANGED nonProcVars

\* The child process ends by itself: it honours SIGTERM, the user closes it,
\* or it crashes.  Nothing obliges it to.
ChildExits(n) ==
    /\ child[n] = "running"
    /\ child' = [child EXCEPT ![n] = "exited"]
    /\ UNCHANGED <<instances, process, killed, signals, killTimers, nextPort,
                   udpPort, stoppedEvents, toolResult>>
    /\ UNCHANGED nonProcVars

\* The 'exit' handlers: ProcessManager deletes the instance and emits
\* 'instance-stopped', then WsjtxProcess sets this.process = null.  The timers
\* of this WsjtxProcess object would from now on find this.process null and
\* do nothing, so they are dropped here.
ExitEvent(n) ==
    /\ loopIdle
    /\ child[n] = "exited"
    /\ process[n] = "child"
    /\ instances' = instances \ {n}
    /\ stoppedEvents' = [stoppedEvents EXCEPT ![n] = @ + 1]
    /\ process' = [process EXCEPT ![n] = "null"]
    /\ child' = [child EXCEPT ![n] = "none"]
    /\ killed' = [killed EXCEPT ![n] = FALSE]
    /\ signals' = [signals EXCEPT ![n] = {}]
    /\ killTimers' = [killTimers EXCEPT ![n] = 0]
    /\ UNCHANGED <<nextPort, udpPort, toolResult>>
    /\ UNCHANGED nonProcVars

\* ======================================================================
\* Vita49Client
\* ======================================================================

\* Commands written to the radio socket: `C<seq>|<text>\n`.  The text of a
\* command is kept as its verb, the slice index it names (-1 when it names
\* none) and its argument.
Cmd(verb, index, arg) == [verb |-> verb, index |-> index, arg |-> arg]

\* Values the radio reports for RF_frequency, in MHz as text.
FreqTexts == {"7.074000"}

\* parseFloat(value) * 1e6 of handleSliceMessage, in IEEE double arithmetic.
\* The product is a double and need not be a whole number: for "2.000001"
\* it is 2000001.0000000002.  parseFloatTimes1e6 is the whole number nearest
\* to the product and parseFloatTimes1e6Excess is the product minus that
\* whole number, in units of 10^-10.
parseFloatTimes1e6(v) ==
    CASE v = "14.074000"  -> 14074000
      [] v = "14.0740000" -> 14074000
      [] v = "7.074000"   -> 7074000
      [] v = "2.000001"   -> 2000001
      [] OTHER            -> 0

parseFloatTimes1e6Excess(v) ==
    CASE v = "2.000001" -> 2
      [] OTHER          -> 0

\* (frequencyHz / 1e6).toFixed(6) of tuneSlice, for a whole number of Hz.
toFixed6(hz) ==
    LET a == IF hz < 0 THEN 0 - hz ELSE hz
    IN (IF hz < 0 THEN "-" ELSE "")
       \o ToString(a \div 1000000) \o "."
       \o padStart(ToString(a % 1000000), 6, "0")

\* The key=value pairs a slice status message may carry.
Pairs == { <<"RF_frequency", v>> : v \in FreqTexts }
         \cup { <<"mode", v>> : v \in {"DIGU"} }
         \cup { <<"in_use", v>> : v \in {"0", "1"} }

Messages == UNION { [1 .. k -> Pairs] : k \in 0 .. MaxKeys }

\* slice.frequency is a double: the record holds the nearest whole number in
\* frequency and the rest, in units of 10^-10, in frequencyExcess.
NewSlice == [present |-> FALSE, frequency |-> 0, frequencyExcess |-> 0,
             mode |-> "", active |-> FALSE]

InitClient ==
    /\ conn = "idle"
    /\ commandSeq = 1
    /\ lastWrites = <<>>
    /\ slices = [i \in Slices |-> NewSlice]
    /\ lastEvents = [slice |-> -1, events |-> <<>>]

\* Vita49Client.connected
connected == conn = "up"

\* Variant of sendCommands: a command dropped while not connected takes a
\* sequence number all the same.
sendCommandsCounting(cmds) ==
    IF connected
    THEN /\ commandSeq + Len(cmds) - 1 <= MaxSeq
         /\ lastWrites' = [k \in 1 .. Len(cmds) |->
                              [seq |-> commandSeq + k - 1, cmd |-> cmds[k]]]
         /\ commandSeq' = commandSeq + Len(cmds)
    ELSE /\ commandSeq + Len(cmds) - 1 <= MaxSeq
         /\ lastWrites' = <<>>
         /\ commandSeq' = commandSeq + Len(cmds)

\* Vita49Client.sendCommand, called once for each command of cmds in turn:
\* dropped with a warning while not connected, else numbered and written.
sendCommands(cmds) ==
    IF connected
    THEN /\ commandSeq + Len(cmds) - 1 <= MaxSeq
         /\ lastWrites' = [k \in 1 .. Len(cmds) |->
                              [seq |-> commandSeq + k - 1, cmd |-> cmds[k]]]
         /\ commandSeq' = commandSeq + Len(cmds)
    ELSE /\ lastWrites' = <<>>
         /\ UNCHANGED commandSeq

\* Variant of tuneSlice: the frequency is written in Hz.
tuneSliceInHz(i, hz) == Cmd("slice tune", i, ToString(hz))

\* Vita49Client.tuneSlice, setSliceMode, setSliceTx: the command each sends.
tuneSlice(i, hz) == Cmd("slice tune", i, toFixed6(hz))
setSliceMode(i, m) == Cmd("slice set mode", i, m)
setSliceTx(i, tx) == Cmd("xmit", -1, IF tx THEN "1" ELSE "0")

\* Variant of parsePairs: the loop ends at the in_use pair.
RECURSIVE parsePairsUntilInUse(_, _, _)
parsePairsUntilInUse(s, pairs, wasActive) ==
    IF pairs = <<>> THEN s
    ELSE IF Head(pairs)[1] = "in_use"
         THEN [s EXCEPT !.active = (Head(pairs)[2] = "1"),
                        !.inUseChanged = ((Head(pairs)[2] = "1") # wasActive)]
         ELSE parsePairsUntilInUse(
                  IF Head(pairs)[1] = "RF_frequency"
                  THEN [s EXCEPT !.frequency = parseFloatTimes1e6(Head(pairs)[2])]
                  ELSE IF Head(pairs)[1] = "mode"
                       THEN [s EXCEPT !.mode = Head(pairs)[2]]
                       ELSE s,
                  Tail(pairs), wasActive)

\* The loop over the key=value pairs in handleSliceMessage.  s carries the
\* slice fields and the inUseChanged flag.
RECURSIVE parsePairs(_, _, _)
parsePairs(s, pairs, wasActive) ==
    IF pairs = <<>> THEN s
    ELSE LET key == Head(pairs)[1]
             value == Head(pairs)[2]
             active == (value = "1")
             t == CASE key = "RF_frequency" ->
                         [s EXCEPT !.frequency = parseFloatTimes1e6(value),
                                   !.frequencyExcess =
                                       parseFloatTimes1e6Excess(value)]
                    [] key = "mode" -> [s EXCEPT !.mode = value]
                    [] key = "in_use" ->
                         [s EXCEPT !.active = active,
                                   !.inUseChanged = @ \/ (active # wasActive)]
                    [] OTHER -> s
         IN parsePairs(t, Tail(pairs), wasActive)

\* The slice record handleSliceMessage works on: the stored one or a new one.
sliceAtStart(i) == [frequency |-> slices[i].frequency,
                    frequencyExcess |-> slices[i].frequencyExcess,
                    mode |-> slices[i].mode,
                    active |-> slices[i].active,
                    inUseChanged |-> FALSE]

parsedSlice(i, msg) == parsePairs(sliceAtStart(i), msg, slices[i].active)

\* The slice as handleSliceMessage leaves it in Vita49Client.slices.
storedSlice(s) == [present |-> TRUE,
                   frequency |-> s.frequency,
                   frequencyExcess |-> s.frequencyExcess,
                   mode |-> s.mode,
                   active |-> s.active]

\* Variant of emitsAdded: 'slice-added' for every message that leaves the
\* slice in use.
emitsAddedWhenInUse(i, s) == s.active

\* The second pass of handleSliceMessage, for the parsed slice s: the events
\* emitted, in order.
emitsAdded(i, s) == s.inUseChanged /\ ~slices[i].active /\ s.active

emitsRemoved(i, s) ==
    s.inUseChanged /\ ~emitsAdded(i, s) /\ slices[i].active /\ ~s.active

sliceEvents(i, s) ==
    (IF emitsAdded(i, s) THEN <<"slice-added">>
     ELSE IF emitsRemoved(i, s) THEN <<"slice-removed">> ELSE <<>>)
    \o <<"slice-updated">>

\* `const [key, value] = parts[i].split('=')`.  A value that is absent
\* (undefined) is kept as the empty string: handleSliceMessage treats the two
\* alike (=== '1' is false, and the mode is falsy).
keyValueOf(kv) == <<kv[1], IF Len(kv) >= 2 THEN kv[2] ELSE "">>

keyValue(part) == keyValueOf(split(part, "="))

\* Vita49Client.handleMessage: the slice message in the words of a status
\* text, if it is one that handleSliceMessage acts on.
sliceMessageOf(parts) ==
    IF parts[1] = "slice" /\ Len(parts) >= 2
    THEN <<[index |-> parts[2],
            pairs |-> [k \in 1 .. Len(parts) - 2 |-> keyValue(parts[k + 2])]]>>
    ELSE <<>>

handleMessage(message) == sliceMessageOf(split(message, " "))

\* One line of handleData: blank lines and lines that do not start with S,
\* or have no `|`, are skipped.
statusOf(parts) ==
    IF Len(parts) >= 2 THEN handleMessage(trim(parts[2])) ELSE <<>>

handleLine(line) ==
    IF trim(line) = "" THEN <<>>
    ELSE IF startsWith(line, "S") THEN statusOf(split(substringFrom(line, 1), "|"))
         ELSE <<>>

\* Vita49Client.handleData: the text of one socket read is split at the
\* newlines and each line is handled; nothing is kept for the next read.
\* The result is the slice messages handled, in order.
RECURSIVE handleLines(_)
handleLines(lines) ==
    IF lines = <<>> THEN <<>>
    ELSE handleLine(Head(lines)) \o handleLines(Tail(lines))

handleData(data) == handleLines(split(data, "\n"))

\* main() calls flexClient.connect() once.
Connect ==
    /\ loopIdle
    /\ conn = "idle"
    /\ conn' = "connecting"
    /\ UNCHANGED <<commandSeq, lastWrites, slices, lastEvents>>
    /\ UNCHANGED <<procVars, masterVars, toolResult, nonRadioVars>>

\* socket 'connect': subscribe and ask for the slice list.
ConnectEvent ==
    /\ loopIdle
    /\ conn = "connecting"
    /\ conn' = "up"
    /\ commandSeq + 1 <= MaxSeq
    /\ lastWrites' = <<[seq |-> commandSeq,
                        cmd |-> Cmd("sub slice all", -1, "")],
                       [seq |-> commandSeq + 1,
                        cmd |-> Cmd("slice list", -1, "")]>>
    /\ commandSeq' = commandSeq + 2
    /\ UNCHANGED <<slices, lastEvents>>
    /\ UNCHANGED <<procVars, masterVars, toolResult, nonRadioVars>>

\* socket 'error' then 'close' while connecting, or 'close' of an open
\* session: connected = false and 'disconnected' is emitted.  No code calls
\* connect() again.
CloseEvent ==
    /\ loopIdle
    /\ conn \in {"connecting", "up"}
    /\ conn' = "closed"
    /\ UNCHANGED <<commandSeq, lastWrites, slices, lastEvents>>
    /\ UNCHANGED <<procVars, masterVars, toolResult, nonRadioVars>>

\* ======================================================================
\* SliceMasterLogic and HrdCatServer
\* ======================================================================

\* The UDPServerPort handleSliceAdded has configureRigForHrdCat write into
\* the INI file of the instance of slice i: the port the decoder sends its
\* telemetry to.
UDPServerPort(i) == 2237 + i

\* The lifecycle events SliceMasterLogic emits, with the slice and the
\* instance name they carry.
MasterEvent(type, i) ==
    [type |-> type, slice |-> i, instanceName |-> InstanceNameOf(i)]

NoMasterEvent == [type |-> "none", slice |-> -1, instanceName |-> ""]

\* The state a HrdCatServer object is constructed with.
DefaultCatFrequency == 14074000

InitMaster ==
    /\ sliceToInstance = {}
    /\ sliceIndexMap = {}
    /\ catServers = {}
    /\ catListening = {}
    /\ catFrequency = [i \in Slices |-> DefaultCatFrequency]
    /\ catMode = [i \in Slices |-> "USB"]
    /\ pttState = [i \in Slices |-> FALSE]
    /\ pendingAdds = [i \in Slices |-> <<>>]
    /\ masterEvent = NoMasterEvent
    /\ hrdClients = {}
    /\ hrdBuffer = [i \in Slices |-> <<>>]
    /\ hrdSent = [slice |-> -1, frames |-> <<>>]

\* SliceMasterLogic.stopCatServer: stop and forget the registered server.
\* The fields of the stopped server object are not read again.
stopCatServer(i) ==
    IF i \in catServers
    THEN /\ catServers' = catServers \ {i}
         /\ catListening' = catListening \ {i}
         /\ catFrequency' = [catFrequency EXCEPT ![i] = DefaultCatFrequency]
         /\ catMode' = [catMode EXCEPT ![i] = "USB"]
         /\ pttState' = [pttState EXCEPT ![i] = FALSE]
         /\ hrdClients' = hrdClients \ {i}
         /\ hrdBuffer' = [hrdBuffer EXCEPT ![i] = <<>>]
    ELSE UNCHANGED <<catServers, catListening, catFrequency, catMode, pttState,
                     hrdClients, hrdBuffer>>

\* SliceMasterLogic.handleSliceAdded up to its `await startCatServer(...)`,
\* for a slice without an instance: the index is recorded, a HrdCatServer is
\* built with the slice's frequency and asked to listen.  listenOk = FALSE is
\* a port some other program holds; a port this program already listens on
\* fails by itself.
handleSliceAdded(i, s, listenOk) ==
    /\ Len(pendingAdds[i]) < MaxPending
    /\ sliceIndexMap' = sliceIndexMap \cup {i}
    /\ IF listenOk /\ i \notin catListening
       THEN /\ catListening' = catListening \cup {i}
            /\ catFrequency' = [catFrequency EXCEPT ![i] = s.frequency]
            /\ catMode' = [catMode EXCEPT ![i] = "USB"]
            /\ pttState' = [pttState EXCEPT ![i] = FALSE]
            /\ pendingAdds' = [pendingAdds EXCEPT ![i] = Append(@, "ok")]
       ELSE /\ pendingAdds' = [pendingAdds EXCEPT ![i] = Append(@, "fail")]
            /\ UNCHANGED <<catListening, catFrequency, catMode, pttState>>
    /\ UNCHANGED <<sliceToInstance, catServers, procVars, hrdClients, hrdBuffer,
                   masterEvent>>

\* SliceMasterLogic.handleSliceRemoved for a slice that has an instance.
handleSliceRemoved(i) ==
    /\ IF i \in sliceIndexMap
       THEN stopCatServer(i)
       ELSE UNCHANGED <<catServers, catListening, catFrequency, catMode,
                        pttState, hrdClients, hrdBuffer>>
    /\ sliceIndexMap' = sliceIndexMap \ {i}
    /\ stopInstance(InstanceNameOf(i))
    /\ sliceToInstance' = sliceToInstance \ {i}
    /\ masterEvent' = MasterEvent("instance-stopped", i)
    /\ UNCHANGED pendingAdds

\* SliceMasterLogic.handleSliceUpdated: copy the pushed frequency, and the
\* mode when it is not empty, into the slice's registered CAT server.
handleSliceUpdated(i, s) ==
    /\ IF i \in sliceToInstance /\ i \in sliceIndexMap /\ i \in catServers
       THEN /\ catFrequency' = [catFrequency EXCEPT ![i] = s.frequency]
            /\ catMode' = [catMode EXCEPT ![i] =
                              IF s.mode # "" THEN s.mode ELSE @]
       ELSE UNCHANGED <<catFrequency, catMode>>
    /\ UNCHANGED <<sliceToInstance, sliceIndexMap, catServers, catListening,
                   pttState, pendingAdds, masterEvent, procVars, hrdClients,
                   hrdBuffer>>

\* config.flex.defaultBands: not set by default.
DefaultBands == <<>>

\* The auto-tune of the manager's 'slice-added' handler.
autoTune(i) ==
    IF i < Len(DefaultBands)
    THEN <<tuneSlice(i, DefaultBands[i + 1]), setSliceMode(i, "DIGU")>>
    ELSE <<>>

\* Variant of pushCommands: the 'slice-updated' handler sends the pushed
\* frequency back to the radio.
pushCommandsEchoing(i, s) ==
    IF emitsAdded(i, s) THEN autoTune(i) ELSE <<tuneSlice(i, s.frequency)>>

\* The commands the manager's handlers of the slice events send to the
\* radio for the parsed slice s: the auto-tune of 'slice-added'; the
\* handlers of 'slice-removed' and 'slice-updated' send none.
pushCommands(i, s) == IF emitsAdded(i, s) THEN autoTune(i) ELSE <<>>

\* A slice status line arrives: Vita49Client.handleSliceMessage, and the
\* manager's handlers of the events it emits, each run to its first await.
\* 'slice-updated' follows 'slice-added' and 'slice-removed' in the same
\* call; handleSliceUpdated acts only on a slice that has an instance, which
\* a slice just removed, or just added without one, has not.
Push(i, msg, listenOk) ==
    LET s == parsedSlice(i, msg) IN
    /\ ~exited
    /\ conn = "up"
    /\ slices' = [slices EXCEPT ![i] = storedSlice(s)]
    /\ lastEvents' = [slice |-> i, events |-> sliceEvents(i, s)]
    /\ IF pushCommands(i, s) # <<>>
       THEN sendCommands(pushCommands(i, s))
       ELSE UNCHANGED <<commandSeq, lastWrites>>
    /\ CASE emitsAdded(i, s) /\ i \notin sliceToInstance ->
                handleSliceAdded(i, s, listenOk)
         [] emitsRemoved(i, s) /\ i \in sliceToInstance ->
                handleSliceRemoved(i)
         [] OTHER -> handleSliceUpdated(i, s)
    /\ UNCHANGED <<conn, toolResult, nonRadioVars>>

\* Socket 'data' of the radio session: handleData on the text of one read.
\* A read that holds no slice message changes nothing.
Data(data) ==
    \E ms \in {handleData(data)} :
        /\ ~exited
        /\ conn = "up"
        /\ Len(ms) <= MaxPerRead
        /\ IF ms = <<>>
           THEN UNCHANGED vars
           ELSE /\ ~parseInt(ms[1].index).nan
                /\ parseInt(ms[1].index).n \in Slices
                /\ Push(parseInt(ms[1].index).n, ms[1].pairs, TRUE)

\* handleSliceAdded resumes after `await startCatServer(...)`: on failure it
\* returns; else the server is registered, the instance is started and
\* mapped, and a start that throws stops the server again.
handleSliceAddedResumes(i, spawned) ==
    /\ ~exited
    /\ pendingAdds[i] # <<>>
    /\ pendingAdds' = [pendingAdds EXCEPT ![i] = Tail(@)]
    /\ IF Head(pendingAdds[i]) = "fail"
       THEN UNCHANGED <<sliceToInstance, catServers, catListening,
                        catFrequency, catMode, pttState, procVars,
                        hrdClients, hrdBuffer, masterEvent>>
       ELSE IF startInstanceThrows(InstanceNameOf(i))
            THEN /\ catServers' = catServers \ {i}
                 /\ catListening' = catListening \ {i}
                 /\ catFrequency' = [catFrequency EXCEPT
                                        ![i] = DefaultCatFrequency]
                 /\ catMode' = [catMode EXCEPT ![i] = "USB"]
                 /\ pttState' = [pttState EXCEPT ![i] = FALSE]
                 /\ hrdClients' = hrdClients \ {i}
                 /\ hrdBuffer' = [hrdBuffer EXCEPT ![i] = <<>>]
                 /\ UNCHANGED <<sliceToInstance, procVars, masterEvent>>
            ELSE /\ catServers' = catServers \cup {i}
                 /\ startInstance(InstanceNameOf(i), spawned)
                 /\ sliceToInstance' = sliceToInstance \cup {i}
                 /\ masterEvent' = MasterEvent("instance-launched", i)
                 /\ UNCHANGED <<catListening, catFrequency, catMode, pttState,
                                hrdClients, hrdBuffer>>
    /\ UNCHANGED <<sliceIndexMap, clientVars, toolResult, nonRadioVars>>

\* Inputs of the CAT commands a client may send.
CatFrequencies == {0, 7074000}
CatModes == {"digu"}
CatButtons == {"tx", "split"}

\* HrdCatServer.processCommand, `set frequency-hz <hz>`, with the manager's
\* 'cat-frequency-change' handler.  The reply is OK either way.
CatSetFrequency(i, hz) ==
    /\ loopIdle
    /\ i \in catListening
    /\ IF hz > 0
       THEN /\ catFrequency' = [catFrequency EXCEPT ![i] = hz]
            /\ sendCommands(<<tuneSlice(i, hz)>>)
       ELSE UNCHANGED <<catFrequency, commandSeq, lastWrites>>
    /\ UNCHANGED <<sliceToInstance, sliceIndexMap, catServers, catListening,
                   catMode, pttState, pendingAdds, masterEvent, hrdClients,
                   hrdBuffer>>
    /\ UNCHANGED <<conn, slices, lastEvents, procVars, toolResult,
                   nonRadioVars>>

\* HrdCatServer.processCommand, `set dropdown mode <name>`, with the
\* manager's 'cat-mode-change' handler.
CatSetMode(i, m) ==
    /\ loopIdle
    /\ i \in catListening
    /\ catMode' = [catMode EXCEPT ![i] = toUpperCase(m)]
    /\ sendCommands(<<setSliceMode(i, toUpperCase(m))>>)
    /\ UNCHANGED <<sliceToInstance, sliceIndexMap, catServers, catListening,
                   catFrequency, pttState, pendingAdds, masterEvent, hrdClients,
                   hrdBuffer>>
    /\ UNCHANGED <<conn, slices, lastEvents, procVars, toolResult,
                   nonRadioVars>>

\* HrdCatServer.processCommand, `set button-select <button> <0|1>`, with
\* the manager's 'cat-ptt-change' handler.
CatSetPtt(i, button, state) ==
    /\ loopIdle
    /\ i \in catListening
    /\ IF button = "tx" \/ button = "ptt"
       THEN /\ pttState' = [pttState EXCEPT ![i] = state]
            /\ sendCommands(<<setSliceTx(i, state)>>)
       ELSE UNCHANGED <<pttState, commandSeq, lastWrites>>
    /\ UNCHANGED <<sliceToInstance, sliceIndexMap, catServers, catListening,
                   catFrequency, catMode, pendingAdds, masterEvent, hrdClients,
                   hrdBuffer>>
    /\ UNCHANGED <<conn, slices, lastEvents, procVars, toolResult,
                   nonRadioVars>>

\* The tool's loop `for (let i = 0; i < 4; i++)`.
EmergencyStopSlices == 4

\* Tool rig_emergency_stop: setSliceTx(i, false) for i = 0..3, then success.
ToolEmergencyStop ==
    /\ loopIdle
    /\ sendCommands([k \in 1 .. EmergencyStopSlices |->
                        setSliceTx(k - 1, FALSE)])
    /\ toolResult' = Result("rig_emergency_stop", "", FALSE)
    /\ udpOut' = <<>>
    /\ UNCHANGED <<conn, slices, lastEvents, procVars, masterVars,
                   qsoVars, exited, wireVars>>


\* ======================================================================
\* QsoStateMachine (section 4.8 of the specification)
\* ======================================================================

QsoIds == 1 .. MaxQsos

\* max_retries, default 3.
MaxRetries == 3

Datagram(type, id) == [type |-> type, id |-> id]

InitQso ==
    /\ activeQsos = [n \in Names |-> 0]
    /\ qsoInstance = [q \in QsoIds |-> ""]
    /\ qsoState = [q \in QsoIds |-> "none"]
    /\ qsoRetries = [q \in QsoIds |-> 0]
    /\ qsoEvents = [q \in QsoIds |-> [complete |-> 0, failed |-> 0]]

Terminal(st) == st \in {"Complete", "Failed"}

\* A QsoStateMachine that was created and has not reached a terminal state.
Running(q) == qsoState[q] # "none" /\ ~Terminal(qsoState[q])

\* The state that transmits for the phase st belongs to.
sendingStateOf(st) ==
    CASE st \in {"Calling", "WaitingReply"} -> "Calling"
      [] st \in {"SendingReport", "WaitingReport"} -> "SendingReport"
      [] OTHER -> "SendingConfirm"

\* The state that listens once the transmission of st is out.
waitingStateOf(st) ==
    CASE st = "Calling" -> "WaitingReply"
      [] st = "SendingReport" -> "WaitingReport"
      [] OTHER -> "WaitingFinal"

\* The state a matching decode advances to.
advancedStateOf(st) ==
    CASE st \in {"Calling", "WaitingReply"} -> "SendingReport"
      [] st \in {"SendingReport", "WaitingReport"} -> "SendingConfirm"
      [] OTHER -> "Complete"

\* Decodes by what they carry after `<my> <them>`: "reply" any other token,
\* "report" a signal report, "final" 73 or RR73; "other" is not addressed to
\* this station by the target.
DecodeKinds == {"reply", "report", "final", "other"}

\* "Advances when" of the table.
matches(st, kind) ==
    CASE st \in {"Calling", "WaitingReply"} -> kind # "other"
      [] st \in {"SendingReport", "WaitingReport"} -> kind = "report"
      [] OTHER -> kind = "final"

\* ======================================================================
\* WsjtxManager: QSOs
\* ======================================================================

\* Variant of executeQsoThrows: executeQso without its guard.
neverThrows(n) == FALSE

\* The guard of WsjtxManager.executeQso.
executeQsoThrows(n) == activeQsos[n] # 0

\* The manager's 'complete' and 'failed' handlers of a QSO of instance n:
\* the instance's entry is deleted from activeQsos.
deleteActive(map, n) == [map EXCEPT ![n] = 0]

\* The manager's handlers emit 'qso-complete' / 'qso-failed'.
emitTerminal(ev, st) ==
    IF st = "Complete" THEN [ev EXCEPT !.complete = @ + 1]
    ELSE [ev EXCEPT !.failed = @ + 1]

\* QSO q enters state st with its retry count r; for a terminal state the
\* QSO emits its event and the manager's handler of it runs.  (How a
\* QsoStateMachine hands its transmissions to the decoder is not in the
\* source: the manager constructs it with its QsoConfig only.)
enterState(q, st, r) ==
    /\ qsoState' = [qsoState EXCEPT ![q] = st]
    /\ qsoRetries' = [qsoRetries EXCEPT ![q] = r]
    /\ IF Terminal(st)
       THEN /\ activeQsos' = deleteActive(activeQsos, qsoInstance[q])
            /\ qsoEvents' = [qsoEvents EXCEPT ![q] = emitTerminal(@, st)]
       ELSE UNCHANGED <<activeQsos, qsoEvents>>
    /\ UNCHANGED qsoInstance

\* The next QsoStateMachine object to be constructed.
freeQso == CHOOSE q \in QsoIds :
              qsoState[q] = "none" /\ \A p \in QsoIds : p < q => qsoState[p] # "none"

\* WsjtxManager.executeQso past its guard: a new QsoStateMachine is stored
\* for the instance and started (Idle -> Calling).
executeQso(n) ==
    /\ \E q \in QsoIds : qsoState[q] = "none"
    /\ qsoInstance' = [qsoInstance EXCEPT ![freeQso] = n]
    /\ activeQsos' = [activeQsos EXCEPT ![n] = freeQso]
    /\ qsoState' = [qsoState EXCEPT ![freeQso] = "Calling"]
    /\ UNCHANGED <<qsoRetries, qsoEvents>>

\* Tool execute_qso: the error of executeQso is returned as isError.
ToolExecuteQso(n) ==
    /\ loopIdle
    /\ IF executeQsoThrows(n)
       THEN /\ toolResult' = Result("execute_qso", n, TRUE)
            /\ udpOut' = <<>>
            /\ UNCHANGED qsoVars
       ELSE /\ executeQso(n)
            /\ udpOut' = <<>>
            /\ toolResult' = Result("execute_qso", n, FALSE)
    /\ UNCHANGED <<procVars, clientVars, masterVars, exited, wireVars>>

\* Tool wsjtx_halt_tx: WsjtxManager.haltTx -> UdpSender.sendHaltTx.
ToolHaltTx(n) ==
    /\ loopIdle
    /\ udpOut' = <<Datagram("HaltTx", n)>>
    /\ toolResult' = Result("wsjtx_halt_tx", n, FALSE)
    /\ UNCHANGED <<procVars, clientVars, masterVars, qsoVars, exited, wireVars>>

\* The listener's 'decode' handler: the decode goes to the QSO stored for
\* the instance it names, which advances when the decode matches.
Decode(n, kind) ==
    /\ loopIdle
    /\ IF activeQsos[n] # 0 /\ Running(activeQsos[n])
          /\ matches(qsoState[activeQsos[n]], kind)
       THEN enterState(activeQsos[n],
                       advancedStateOf(qsoState[activeQsos[n]]),
                       qsoRetries[activeQsos[n]])
       ELSE UNCHANGED qsoVars
    /\ UNCHANGED <<procVars, clientVars, masterVars, udpOut, exited, toolResult,
                   wireVars>>

\* The transmission of a sending state is out: the QSO listens.
QsoSent(q) ==
    /\ loopIdle
    /\ qsoState[q] \in {"Calling", "SendingReport", "SendingConfirm"}
    /\ enterState(q, waitingStateOf(qsoState[q]), qsoRetries[q])
    /\ UNCHANGED <<procVars, clientVars, masterVars, udpOut, exited, toolResult,
                   wireVars>>

\* The state timer of QSO q fires.  WaitingFinal ends the QSO, as Complete
\* when tolerant; any other state is re-entered from its transmission while
\* retries remain, and fails after.
QsoTimeout(q, tolerant) ==
    /\ loopIdle
    /\ Running(q)
    /\ IF qsoState[q] = "WaitingFinal"
       THEN enterState(q, IF tolerant THEN "Complete" ELSE "Failed",
                       qsoRetries[q])
       ELSE IF qsoRetries[q] < MaxRetries
            THEN enterState(q, sendingStateOf(qsoState[q]), qsoRetries[q] + 1)
            ELSE enterState(q, "Failed", qsoRetries[q])
    /\ UNCHANGED <<procVars, clientVars, masterVars, udpOut, exited, toolResult,
                   wireVars>>

\* Variant of stopAborts: stop() clears activeQsos without aborting.
abortsNone(q) == FALSE

\* The loop of WsjtxManager.stop over activeQsos.values(): the QSOs aborted.
stopAborts(q) == \E n \in Names : activeQsos[n] = q

\* ProcessManager.stopAll: WsjtxProcess.stop of every registered instance.
stopAllInstances ==
    /\ \A n \in instances : process[n] # "null" => killTimers[n] < MaxTimers
    /\ signals' = [n \in Names |->
                      IF n \in instances /\ process[n] # "null" /\ hasHandle(n)
                      THEN signals[n] \cup {"SIGTERM"} ELSE signals[n]]
    /\ killed' = [n \in Names |->
                     IF n \in instances /\ process[n] # "null" /\ hasHandle(n)
                     THEN TRUE ELSE killed[n]]
    /\ killTimers' = [n \in Names |->
                         IF n \in instances /\ process[n] # "null"
                         THEN killTimers[n] + 1 ELSE killTimers[n]]
    /\ UNCHANGED <<instances, process, child, nextPort, udpPort, stoppedEvents>>

\* SliceMasterLogic.stopAll: stopCatServer of every registered server.
stopAllCatServers ==
    /\ catServers' = {}
    /\ catListening' = catListening \ catServers
    /\ catFrequency' = [i \in Slices |->
                           IF i \in catServers THEN DefaultCatFrequency
                           ELSE catFrequency[i]]
    /\ catMode' = [i \in Slices |->
                      IF i \in catServers THEN "USB" ELSE catMode[i]]
    /\ pttState' = [i \in Slices |->
                       IF i \in catServers THEN FALSE ELSE pttState[i]]
    /\ hrdClients' = hrdClients \ catServers
    /\ hrdBuffer' = [i \in Slices |->
                         IF i \in catServers THEN <<>> ELSE hrdBuffer[i]]
    /\ UNCHANGED <<sliceToInstance, sliceIndexMap, pendingAdds, masterEvent>>

\* The SIGINT handler of main: flexClient.disconnect() when there is a radio
\* client, WsjtxManager.stop()
\* (abort every active QSO, clear activeQsos, stop the CAT servers, stop the
\* instances, stop the listener) and process.exit(0).  An aborted QSO fails,
\* and the manager's 'failed' handler emits 'qso-failed'.  The signal is
\* handled whenever the process runs, also while a handleSliceAdded waits.
Shutdown ==
    /\ ~exited
    /\ conn' = IF conn = "idle" THEN conn ELSE "closed"
    /\ qsoState' = [q \in QsoIds |->
                       IF stopAborts(q) /\ Running(q) THEN "Failed"
                       ELSE qsoState[q]]
    /\ qsoEvents' = [q \in QsoIds |->
                        IF stopAborts(q) /\ Running(q)
                        THEN emitTerminal(qsoEvents[q], "Failed")
                        ELSE qsoEvents[q]]
    /\ activeQsos' = [n \in Names |-> 0]
    /\ stopAllCatServers
    /\ stopAllInstances
    /\ exited' = TRUE
    /\ UNCHANGED <<qsoInstance, qsoRetries, commandSeq, lastWrites, slices,
                   lastEvents, udpOut, toolResult, wireVars>>


\* ======================================================================
\* WsjtxMcpServer tools (instance management)
\* ======================================================================

\* Tool start_instance (STANDARD mode): WsjtxManager.startInstance rethrows.
ToolStartInstance(n, spawned) ==
    /\ loopIdle
    /\ IF startInstanceThrows(n)
       THEN /\ toolResult' = Result("start_instance", n, TRUE)
            /\ UNCHANGED procVars
       ELSE /\ startInstance(n, spawned)
            /\ toolResult' = Result("start_instance", n, FALSE)
    /\ udpOut' = <<>>
    /\ UNCHANGED <<clientVars, masterVars, qsoVars, exited, wireVars>>

\* Tool stop_instance: "Stopped instance" or "Instance not found".
ToolStopInstance(n) ==
    /\ loopIdle
    /\ stopInstance(n)
    /\ toolResult' = Result("stop_instance", n, ~stopInstanceReturns(n))
    /\ udpOut' = <<>>
    /\ UNCHANGED <<clientVars, masterVars, qsoVars, exited, wireVars>>

\* ======================================================================
\* CatServer (Kenwood TS-2000 dialect) and the handlers of its events
\* ======================================================================

\* A CatServer object as its constructor leaves it, with no client.
InitKenwood ==
    /\ sliceState = [i \in Slices |->
                        [frequency |-> 14074000, mode |-> "DIGU", tx |-> FALSE]]
    /\ clients = {}
    /\ buffer = [i \in Slices |-> ""]
    /\ written = [slice |-> -1, responses |-> <<>>]

\* CatServer.formatFrequency
formatFrequency(freq) == padStart(ToString(freq), 11, "0")

\* CatServer.modeToKenwood
modeToKenwood(mode) ==
    LET m == toUpperCase(mode)
    IN CASE m = "LSB"  -> "1"
         [] m = "USB"  -> "2"
         [] m = "CW"   -> "3"
         [] m = "FM"   -> "4"
         [] m = "AM"   -> "5"
         [] m = "DIGL" -> "6"
         [] m = "CWR"  -> "7"
         [] m = "DIGU" -> "9"
         [] m = "FMN"  -> "4"
         [] OTHER      -> "2"

\* CatServer.kenwoodToMode; "" stands for null.
kenwoodToMode(modeNum) ==
    CASE modeNum = "1" -> "LSB"
      [] modeNum = "2" -> "USB"
      [] modeNum = "3" -> "CW"
      [] modeNum = "4" -> "FM"
      [] modeNum = "5" -> "AM"
      [] modeNum = "6" -> "DIGL"
      [] modeNum = "7" -> "CWR"
      [] modeNum = "9" -> "DIGU"
      [] OTHER         -> ""

\* CatServer.buildIfResponse
buildIfResponse(st) ==
    "IF" \o formatFrequency(st.frequency) \o "     +00000000"
         \o (IF st.tx THEN "1" ELSE "0") \o modeToKenwood(st.mode)
         \o "0000000 ;"

\* An event a CAT server emits.
CatEvent(type, frequency, mode, tx) ==
    [type |-> type, frequency |-> frequency, mode |-> mode, tx |-> tx]

\* What one command does: the state after it, the response written ("" is
\* none) and the events emitted.
Outcome(st, response, events) ==
    [state |-> st, response |-> response, events |-> events]

\* CatServer.processCommand for one command cmd, `;` included.
CatServer_processCommand(st, cmd) ==
    LET cmdType == substring(cmd, 0, 2)
        cmdData == substring(cmd, 2, Len(cmd) - 1)
        newFreq == parseInt(cmdData)
        newMode == kenwoodToMode(cmdData)
        query(response) == Outcome(st, IF cmdData = "" THEN response ELSE "", <<>>)
    IN CASE cmdType \in {"FA", "FB"} ->
              IF cmdData = ""
              THEN Outcome(st, cmdType \o formatFrequency(st.frequency) \o ";",
                           <<>>)
              ELSE IF ~newFreq.nan
                   THEN Outcome([st EXCEPT !.frequency = newFreq.n], "",
                                <<CatEvent("frequency-change", newFreq.n, "",
                                           FALSE)>>)
                   ELSE Outcome(st, "", <<>>)
         [] cmdType = "IF" -> Outcome(st, buildIfResponse(st), <<>>)
         [] cmdType = "MD" ->
              IF cmdData = ""
              THEN Outcome(st, "MD" \o modeToKenwood(st.mode) \o ";", <<>>)
              ELSE IF newMode # ""
                   THEN Outcome([st EXCEPT !.mode = newMode], "",
                                <<CatEvent("mode-change", 0, newMode, FALSE)>>)
                   ELSE Outcome(st, "", <<>>)
         [] cmdType = "TX" ->
              Outcome([st EXCEPT !.tx = TRUE], "",
                      <<CatEvent("ptt-change", 0, "", TRUE)>>)
         [] cmdType = "RX" ->
              Outcome([st EXCEPT !.tx = FALSE], "",
                      <<CatEvent("ptt-change", 0, "", FALSE)>>)
         [] cmdType = "TQ" ->
              Outcome(st, "TQ" \o (IF st.tx THEN "1" ELSE "0") \o ";", <<>>)
         [] cmdType = "AI" -> query("AI0;")
         [] cmdType = "ID" -> Outcome(st, "ID019;", <<>>)
         [] cmdType = "PS" -> Outcome(st, "PS1;", <<>>)
         [] cmdType = "XT" -> query("XT0;")
         [] cmdType = "RT" -> query("RT0;")
         [] cmdType = "AN" -> query("AN1;")
         [] cmdType \in {"FR", "FT"} -> query(cmdType \o "0;")
         [] cmdType \in {"SH", "SL"} -> query(cmdType \o "00;")
         [] OTHER -> Outcome(st, "", <<>>)

\* The 'data' handler of CatServer.handleConnection: every complete command
\* of the buffer is processed in turn and what follows the last `;` is kept.
RECURSIVE processBuffer(_, _, _, _)
processBuffer(st, buf, responses, events) ==
    LET cmdEnd == indexOf(buf, ";")
        r == CatServer_processCommand(st, substring(buf, 0, cmdEnd + 1))
    IN IF cmdEnd = -1
       THEN [state |-> st, buffer |-> buf, responses |-> responses,
             events |-> events]
       ELSE processBuffer(r.state, substringFrom(buf, cmdEnd + 1),
                          IF r.response # "" THEN Append(responses, r.response)
                          ELSE responses,
                          events \o r.events)

\* The manager's handlers of 'cat-frequency-change', 'cat-mode-change' and
\* 'cat-ptt-change': the radio command each event of slice i is turned into.
forwardCatEvent(i, ev) ==
    CASE ev.type = "frequency-change" -> tuneSlice(i, ev.frequency)
      [] ev.type = "mode-change" -> setSliceMode(i, ev.mode)
      [] OTHER -> setSliceTx(i, ev.tx)

\* What a client of a slice's CatServer may send in one segment.
KenwoodChunks == {"FA;", "FA00014076000;FA;", "FA0001", "FAxyz;",
                  "MD2;", "ZZ;"}

\* A client connects to the CatServer of slice i.
CatAccept(i) ==
    /\ loopIdle
    /\ i \notin clients
    /\ clients' = clients \cup {i}
    /\ buffer' = [buffer EXCEPT ![i] = ""]
    /\ UNCHANGED <<sliceState, written, udpVars, hrdSent>>
    /\ UNCHANGED <<procVars, clientVars, masterVars, qsoVars, udpOut, exited,
                   toolResult>>

\* The client of slice i disconnects: socket 'close'.
CatSocketClose(i) ==
    /\ loopIdle
    /\ i \in clients
    /\ clients' = clients \ {i}
    /\ UNCHANGED <<sliceState, buffer, written, udpVars, hrdSent>>
    /\ UNCHANGED <<procVars, clientVars, masterVars, qsoVars, udpOut, exited,
                   toolResult>>

\* Socket 'data' on the connection of slice i: the commands are processed
\* and each event they emit is forwarded to the radio client.
CatData(i, data) ==
    \E r \in {processBuffer(sliceState[i], buffer[i] \o data, <<>>, <<>>)} :
       /\ loopIdle
       /\ i \in clients
       /\ sliceState' = [sliceState EXCEPT ![i] = r.state]
       /\ Len(r.buffer) <= MaxBuffer
       /\ buffer' = [buffer EXCEPT ![i] = r.buffer]
       /\ written' = [slice |-> i, responses |-> r.responses]
       /\ IF r.events # <<>>
          THEN sendCommands([k \in 1 .. Len(r.events) |->
                                forwardCatEvent(i, r.events[k])])
          ELSE UNCHANGED <<commandSeq, lastWrites>>
       /\ UNCHANGED <<clients, udpVars, hrdSent>>
       /\ UNCHANGED <<conn, slices, lastEvents, procVars, masterVars, qsoVars,
                      udpOut, exited, toolResult>>

\* What the radio may report for a slice: a frequency and a mode.
ReportedFrequencies == {7074000}
ReportedModes == {"CW", ""}

\* CatServer.updateState, as the coordinator calls it when the radio reports
\* a slice: the frequency and the mode are overwritten.
updateState(i, frequency, mode) ==
    /\ loopIdle
    /\ sliceState' = [sliceState EXCEPT ![i].frequency = frequency,
                                        ![i].mode = mode]
    /\ UNCHANGED <<clients, buffer, written, udpVars, hrdSent>>
    /\ UNCHANGED <<procVars, clientVars, masterVars, qsoVars, udpOut, exited,
                   toolResult>>

\* ======================================================================
\* WsjtxUdpListener and UdpSender
\* ======================================================================

InitUdp ==
    /\ datagram = <<>>
    /\ emitted = <<>>
    /\ replyPacket = <<>>

\* The ASCII punctuation the wire formats here carry, with its code.
Punctuation == <<" ", "-", "~", "[", "]", "{", "}", ",", ":", ".", ";">>
PunctuationCodes == <<32, 45, 126, 91, 93, 123, 125, 44, 58, 46, 59>>

\* String.charCodeAt of an ASCII letter, digit or punctuation mark.
charCodeAt(s, k) ==
    LET c == charAt(s, k)
    IN CASE isDigit(c) -> 48 + indexOf(Digits, c)
         [] isUpper(c) -> 65 + indexOf(UpperLetters, c)
         [] indexOf(LowerLetters, c) # -1 -> 97 + indexOf(LowerLetters, c)
         [] OTHER -> PunctuationCodes[CHOOSE j \in 1 .. Len(Punctuation) :
                                         Punctuation[j] = c]

\* String.fromCharCode; a code unit outside those is written U+<code>.
fromCharCode(n) ==
    CASE n \in 48 .. 57 -> charAt(Digits, n - 48)
      [] n \in 65 .. 90 -> charAt(UpperLetters, n - 65)
      [] n \in 97 .. 122 -> charAt(LowerLetters, n - 97)
      [] \E j \in 1 .. Len(PunctuationCodes) : PunctuationCodes[j] = n ->
             Punctuation[CHOOSE j \in 1 .. Len(PunctuationCodes) :
                             PunctuationCodes[j] = n]
      [] OTHER -> "U+" \o ToString(n)

\* Buffer.from(str, 'utf16le') with the bytes of each unit swapped: UTF-16BE.
RECURSIVE utf16be(_)
utf16be(str) ==
    IF str = "" THEN <<>>
    ELSE <<0, charCodeAt(str, 0)>> \o utf16be(substringFrom(str, 1))

\* Buffer.writeUInt32BE, writeInt32BE, writeUInt8: the bytes written.
writeUInt32BE(n) ==
    <<(n \div 16777216) % 256, (n \div 65536) % 256, (n \div 256) % 256, n % 256>>

writeInt32BE(n) ==
    IF n >= 0 THEN writeUInt32BE(n)
    ELSE LET b == writeUInt32BE(n + 2147483647 + 1)
         IN <<b[1] + 128, b[2], b[3], b[4]>>

writeUInt8(n) == <<n % 256>>

\* Buffer.writeDoubleBE for the whole numbers of seconds used here.
writeDoubleBE(x) ==
    CASE x = 0 -> <<0, 0, 0, 0, 0, 0, 0, 0>>
      [] x = 1 -> <<63, 240, 0, 0, 0, 0, 0, 0>>
      [] x = 2 -> <<64, 0, 0, 0, 0, 0, 0, 0>>
      [] x = -1 -> <<191, 240, 0, 0, 0, 0, 0, 0>>

\* Variant of writeQString: the length written counts characters.
writeQStringCharCount(value) ==
    IF value = "" THEN <<255, 255, 255, 255>>
    ELSE writeUInt32BE(Len(value)) \o utf16be(value)

\* UdpSender.writeQString: the null QString for an empty value, else the
\* byte count and the UTF-16BE bytes.
writeQString(value) ==
    IF value = "" THEN <<255, 255, 255, 255>>
    ELSE writeUInt32BE(2 * Len(value)) \o utf16be(value)

\* UdpSender.createHeader: magic, schema 2, message type, id.
createHeader(messageType, id) ==
    <<173, 188, 203, 218>> \o writeUInt32BE(2) \o writeUInt32BE(messageType)
        \o writeQString(id)

\* UdpSender.sendReply: the packet handed to the socket.
sendReply(id, time, snr, deltaTime, deltaFrequency, mode, message) ==
    createHeader(4, id)
        \o writeUInt32BE(time) \o writeInt32BE(snr) \o writeDoubleBE(deltaTime)
        \o writeUInt32BE(deltaFrequency)
        \o writeQString(mode) \o writeQString(message)
        \o writeUInt8(0) \o writeUInt8(0)

\* Arguments of the tool wsjtx_reply_to_station.
ReplyTimes == {43200000}
ReplySnrs == {-12}
ReplyDeltaTimes == {1}
ReplyDeltaFrequencies == {1500}
ReplyModes == {"~"}
ReplyMessages == {"", "CQ K1ABC FN42"}

\* Tool wsjtx_reply_to_station: WsjtxManager.replyToStation ->
\* UdpSender.sendReply.
ToolReplyToStation(n, time, snr, deltaTime, deltaFrequency, mode, message) ==
    /\ loopIdle
    /\ replyPacket' = sendReply(n, time, snr, deltaTime, deltaFrequency, mode,
                                message)
    /\ udpOut' = <<Datagram("Reply", n)>>
    /\ toolResult' = Result("wsjtx_reply_to_station", n, FALSE)
    /\ UNCHANGED <<datagram, emitted, kenwoodVars, hrdSent>>
    /\ UNCHANGED <<procVars, clientVars, masterVars, qsoVars, exited>>

\* ---- WsjtxUdpListener

\* A Buffer read at offset off of n bytes is in range; a read out of range
\* throws a RangeError.
inRange(buf, off, n) == off >= 0 /\ off + n <= Len(buf)

\* Buffer.subarray(a, b): a negative index counts from the end, and both are
\* clamped to the buffer.
bufferIndex(buf, x) == IF x < 0 THEN Max(Len(buf) + x, 0) ELSE Min(x, Len(buf))

subarray(buf, a, b) == SubSeq(buf, bufferIndex(buf, a) + 1, bufferIndex(buf, b))

\* Buffer.readUInt32BE at an offset in range.  A value of 2^24 or more is
\* kept as 2^24 plus its parity: as a length it runs past the end of every
\* datagram, and as a message type it is none of the known ones.
readUInt32BE(buf, off) ==
    IF buf[off + 1] = 0
    THEN buf[off + 2] * 65536 + buf[off + 3] * 256 + buf[off + 4]
    ELSE 16777216 + (buf[off + 4] % 2)

\* Buffer.toString('utf16le') of a buffer whose bytes were swapped in pairs.
RECURSIVE utf16Text(_)
utf16Text(bytes) ==
    IF Len(bytes) < 2 THEN ""
    ELSE fromCharCode(bytes[1] * 256 + bytes[2])
            \o utf16Text(SubSeq(bytes, 3, Len(bytes)))

\* A read that threw.
Thrown == [ok |-> FALSE, value |-> "", newOffset |-> 0]

\* WsjtxUdpListener.readQString.  swap16 throws on a buffer of odd length,
\* which the clamped slice may have.
readQString(buf, off) ==
    IF ~inRange(buf, off, 4) THEN Thrown
    ELSE LET length == readUInt32BE(buf, off)
             o == off + 4
             byteLen == IF length % 2 = 0 THEN length ELSE length - 1
             slice == subarray(buf, o, o + byteLen)
         IN IF subarray(buf, off, o) = <<255, 255, 255, 255>> \/ length = 0
            THEN [ok |-> TRUE, value |-> "", newOffset |-> o]
            ELSE IF byteLen = 0
                 THEN [ok |-> TRUE, value |-> "", newOffset |-> o + length]
                 ELSE IF Len(slice) % 2 # 0 THEN Thrown
                      ELSE [ok |-> TRUE, value |-> utf16Text(slice),
                            newOffset |-> o + length]

\* An event the listener emits.
UdpEvent(type, id, text) == [type |-> type, id |-> id, text |-> text]

\* WsjtxUdpListener.parseStatus: the events emitted for it (none: it threw).
parseStatus(buf, off, id) ==
    LET mode == readQString(buf, off + 8)
        dxCall == readQString(buf, mode.newOffset)
    IN IF inRange(buf, off, 8) /\ mode.ok /\ dxCall.ok
       THEN <<UdpEvent("status", id, mode.value)>>
       ELSE <<>>

\* WsjtxUdpListener.parseDecode: five fields of 1, 4, 4, 8 and 4 bytes, then
\* the mode and the message.
parseDecode(buf, off, id) ==
    LET mode == readQString(buf, off + 21)
        message == readQString(buf, mode.newOffset)
    IN IF inRange(buf, off, 21) /\ mode.ok /\ message.ok
       THEN <<UdpEvent("decode", id, message.value)>>
       ELSE <<>>

\* Variant of magicOk: every magic is accepted.
anyMagic(buf) == TRUE

\* The magic test of parseMessage.
magicOk(buf) == subarray(buf, 0, 4) = <<173, 188, 203, 218>>

\* The 'message' handler of WsjtxUdpListener.start: parseMessage, with the
\* error it throws caught and logged.  The events emitted.
parseMessage(buf) ==
    LET id == readQString(buf, 12)
        messageType == readUInt32BE(buf, 8)
    IN IF ~inRange(buf, 0, 4) THEN <<>>
       ELSE IF ~magicOk(buf) THEN <<>>
       ELSE IF ~inRange(buf, 4, 4) \/ ~inRange(buf, 8, 4) THEN <<>>
       ELSE IF ~id.ok THEN <<>>
       ELSE CASE messageType = 0 -> <<UdpEvent("heartbeat", id.value, "")>>
              [] messageType = 1 -> parseStatus(buf, id.newOffset, id.value)
              [] messageType = 2 -> parseDecode(buf, id.newOffset, id.value)
              [] messageType = 6 -> <<UdpEvent("close", id.value, "")>>
              [] OTHER -> <<>>

\* The messages of a decoder instance "W" (or "WS") that has no QSO:
\* Heartbeat, Status, Decode, QSO Logged and Close, each up to the last field
\* the listener reads.
StatusMessage ==
    createHeader(1, "W") \o <<0, 0, 0, 0>> \o writeUInt32BE(14074000)
        \o writeQString("FT8") \o writeQString("K1ABC")

DecodeMessage ==
    createHeader(2, "W") \o writeUInt8(1) \o writeUInt32BE(43200000)
        \o writeInt32BE(-12) \o writeDoubleBE(0) \o writeUInt32BE(1500)
        \o writeQString("~") \o writeQString("CQ")

WsjtxMessages ==
    {createHeader(0, "W"), createHeader(0, "WS"), StatusMessage, DecodeMessage,
     createHeader(5, "W"), createHeader(6, "W")}

\* What may arrive at the listener's port: every message, every message cut
\* short at any length, and every message under another magic.
Datagrams ==
    UNION { { SubSeq(m, 1, k) : k \in 0 .. Len(m) } : m \in WsjtxMessages }
    \cup { <<218, 203, 188, 173>> \o SubSeq(m, 5, Len(m)) : m \in WsjtxMessages }
    \cup { <<0>> \o SubSeq(m, 2, Len(m)) : m \in WsjtxMessages }

\* Socket 'message': the datagram is parsed and its events are emitted.  No
\* QSO is stored under the id of these messages, so the manager's 'decode'
\* listener forwards nothing.
Message(d) ==
    /\ ~exited
    /\ datagram' = d
    /\ emitted' = parseMessage(d)
    /\ UNCHANGED <<replyPacket, kenwoodVars, hrdSent>>
    /\ UNCHANGED <<procVars, clientVars, masterVars, qsoVars, udpOut, exited,
                   toolResult>>

\* UdpSender.send: the packet goes to localhost:targetPort, and the socket
\* bound on that port receives it.  That socket is the listener's when the
\* two ports are the same.
SentArrives ==
    /\ replyPacket # <<>>
    /\ targetPort = ListenerPort
    /\ Message(replyPacket)

\* ======================================================================
\* HrdCatServer on the wire: framing, commands and the connection
\* ======================================================================

\* The protocol constants; each magic as the bytes writeUInt32LE stores.
HRD_MAGIC_1 == <<205, 171, 52, 18>>
HRD_MAGIC_2 == <<52, 18, 205, 171>>
HRD_HEADER_SIZE == 16

\* Buffer.readInt32LE at an offset in range.
readInt32LE(buf, off) ==
    buf[off + 1] + 256 * buf[off + 2] + 65536 * buf[off + 3]
        + 16777216 * (IF buf[off + 4] >= 128 THEN buf[off + 4] - 256
                      ELSE buf[off + 4])

\* Buffer.writeInt32LE of a number that is not negative.
writeInt32LE(n) ==
    <<n % 256, (n \div 256) % 256, (n \div 65536) % 256,
      (n \div 16777216) % 256>>

\* The loop of decodeUtf16LE: the offset of the first code unit that is 0,
\* or the length of the buffer.
RECURSIVE endIndex(_, _)
endIndex(buf, i) ==
    IF i >= Len(buf) - 1 THEN Len(buf)
    ELSE IF buf[i + 1] = 0 /\ buf[i + 2] = 0 THEN i
         ELSE endIndex(buf, i + 2)

\* Buffer.toString('utf16le'); a last odd byte is left out.
RECURSIVE utf16leText(_)
utf16leText(bytes) ==
    IF Len(bytes) < 2 THEN ""
    ELSE fromCharCode(bytes[1] + 256 * bytes[2])
            \o utf16leText(SubSeq(bytes, 3, Len(bytes)))

\* HrdCatServer.decodeUtf16LE
decodeUtf16LE(buf) == utf16leText(subarray(buf, 0, endIndex(buf, 0)))

\* Buffer.from(str, 'utf16le')
RECURSIVE utf16le(_)
utf16le(str) ==
    IF str = "" THEN <<>>
    ELSE <<charCodeAt(str, 0), 0>> \o utf16le(substringFrom(str, 1))

\* HrdCatServer.encodeUtf16LE: the text and a NUL.
encodeUtf16LE(str) == utf16le(str) \o <<0, 0>>

\* Variant of sendResponse: the size field counts the payload only.
sendResponsePayloadSize(response) ==
    LET payload == encodeUtf16LE(response)
    IN writeInt32LE(Len(payload)) \o HRD_MAGIC_1 \o HRD_MAGIC_2
           \o writeInt32LE(0) \o payload

\* HrdCatServer.sendResponse: the frame written to the socket.
sendResponse(response) ==
    LET payload == encodeUtf16LE(response)
        totalSize == HRD_HEADER_SIZE + Len(payload)
    IN writeInt32LE(totalSize) \o HRD_MAGIC_1 \o HRD_MAGIC_2
           \o writeInt32LE(0) \o payload

\* The length of what /^\[(\d+)\]\s*/ matches at the start of s; 0 when it
\* does not match.
radioSelectorMatch(s) ==
    LET d == leadingDigits(substringFrom(s, 1), 0, 0)
        close == 1 + d.count
    IN IF charAt(s, 0) = "[" /\ d.count > 0 /\ charAt(s, close) = "]"
       THEN Len(s) - Len(trimStart(substringFrom(s, close + 1)))
       ELSE 0

\* String.replace(/[{}]/g, '')
RECURSIVE removeBraces(_)
removeBraces(s) ==
    IF s = "" THEN ""
    ELSE (IF charAt(s, 0) \in {"{", "}"} THEN "" ELSE charAt(s, 0))
            \o removeBraces(substringFrom(s, 1))

\* The fields of a HrdCatServer that its commands read and write.
HrdState(i) ==
    [frequency |-> catFrequency[i], mode |-> catMode[i], pttState |-> pttState[i]]

\* The answer OK, with the frequency set and 'frequency-change' emitted
\* when the number parsed is above 0.
setFrequency(st, f) ==
    IF ~f.nan /\ f.n > 0
    THEN Outcome([st EXCEPT !.frequency = f.n], "OK",
                 <<CatEvent("frequency-change", f.n, "", FALSE)>>)
    ELSE Outcome(st, "OK", <<>>)

\* `set dropdown`, from the pieces after it: parts[0] names the dropdown and
\* parts[1] is the value.
setDropdown(st, parts) ==
    IF toLowerCase(parts[1]) = "mode" /\ Len(parts) >= 2
    THEN Outcome([st EXCEPT !.mode = toUpperCase(parts[2])], "OK",
                 <<CatEvent("mode-change", 0, toUpperCase(parts[2]), FALSE)>>)
    ELSE Outcome(st, "OK", <<>>)

\* `set button-select`, from the pieces after it: parts[0] names the button
\* and parts[1] === '1' is the state.
setButton(st, parts, buttonName) ==
    IF buttonName \in {"tx", "ptt"}
    THEN Outcome([st EXCEPT !.pttState = Len(parts) >= 2 /\ parts[2] = "1"],
                 "OK",
                 <<CatEvent("ptt-change", 0, "",
                            Len(parts) >= 2 /\ parts[2] = "1")>>)
    ELSE Outcome(st, "OK", <<>>)

\* `get button-select`
getButton(st, buttonName) ==
    Outcome(st, IF buttonName \in {"tx", "ptt"} /\ st.pttState THEN "1" ELSE "0",
            <<>>)

\* String.split(/\s+/) of what follows the first n characters, trimmed.
partsAfter(command, n) == splitSpaces(trim(substringFrom(command, n)), "", <<>>)

\* The chain of tests of HrdCatServer.processCommand on lowerCmd, the
\* command without its radio selector and in lower case.  The parameters
\* of the set commands are cut out of `command` as it was received.
commandOutcome(i, st, command, lowerCmd) ==
    CASE lowerCmd = "get id" -> Outcome(st, "FlexRadio", <<>>)
      [] lowerCmd = "get version" -> Outcome(st, "6.0", <<>>)
      [] lowerCmd = "get context" -> Outcome(st, "1", <<>>)
      [] lowerCmd = "get contexts" ->
           Outcome(st, "1:Slice " \o fromCharCode(65 + i), <<>>)
      [] lowerCmd = "get radios" -> Outcome(st, "1:FlexRadio", <<>>)
      [] lowerCmd = "get radio" -> Outcome(st, "FlexRadio", <<>>)
      [] startsWith(lowerCmd, "set radio ") -> Outcome(st, "OK", <<>>)
      [] lowerCmd = "get vfo-count" -> Outcome(st, "1", <<>>)
      [] lowerCmd \in {"get frequency", "get frequency-hz"} ->
           Outcome(st, ToString(st.frequency), <<>>)
      [] lowerCmd = "get frequencies" ->
           Outcome(st, ToString(st.frequency) \o "-" \o ToString(st.frequency),
                   <<>>)
      [] lowerCmd = "get mode" -> Outcome(st, st.mode, <<>>)
      [] lowerCmd = "get buttons" -> Outcome(st, "TX,PTT", <<>>)
      [] startsWith(lowerCmd, "get button-select") ->
           getButton(st, toLowerCase(removeBraces(
                             trim(substringFrom(command, 17)))))
      [] lowerCmd = "get dropdowns" -> Outcome(st, "Mode", <<>>)
      [] startsWith(lowerCmd, "get dropdown-list") ->
           Outcome(st, "USB,LSB,CW,AM,FM,DIGU,DIGL,DATA", <<>>)
      [] startsWith(lowerCmd, "get dropdown-text") ->
           Outcome(st, "Mode: " \o st.mode, <<>>)
      [] lowerCmd = "get ptt" ->
           Outcome(st, IF st.pttState THEN "ON" ELSE "OFF", <<>>)
      [] startsWith(lowerCmd, "set frequency-hz ") ->
           setFrequency(st, parseInt(IF afterLastBlank(command, "") = ""
                                     THEN "0"
                                     ELSE afterLastBlank(command, "")))
      [] startsWith(lowerCmd, "set frequencies-hz ") ->
           setFrequency(st, parseInt(partsAfter(command, 18)[1]))
      [] startsWith(lowerCmd, "set dropdown ") ->
           setDropdown(st, partsAfter(command, 12))
      [] startsWith(lowerCmd, "set button-select ") ->
           setButton(st, partsAfter(command, 18),
                     toLowerCase(removeBraces(partsAfter(command, 18)[1])))
      [] startsWith(lowerCmd, "set context ") -> Outcome(st, "OK", <<>>)
      [] OTHER -> Outcome(st, "OK", <<>>)

\* What is left of the trimmed command once the radio selector is cut off.
cleanedCommand(trimmed) == substringFrom(trimmed, radioSelectorMatch(trimmed))

\* HrdCatServer.processCommand of the server of slice i, in state st.
HrdCatServer_processCommand(i, st, command) ==
    commandOutcome(i, st, command, toLowerCase(cleanedCommand(trim(command))))

\* What one message does: the state after it, the frames written and the
\* events emitted.
Processed(st, frames, events) ==
    [state |-> st, frames |-> frames, events |-> events]

\* The end of processMessage: the response r of the command is framed and
\* written.
respond(r) == Processed(r.state, <<sendResponse(r.response)>>, r.events)

\* HrdCatServer.processMessage: a message shorter than a header or without
\* the two magics is logged and gets no response.
processMessage(i, st, message) ==
    IF Len(message) < HRD_HEADER_SIZE THEN Processed(st, <<>>, <<>>)
    ELSE IF subarray(message, 4, 8) # HRD_MAGIC_1
              \/ subarray(message, 8, 12) # HRD_MAGIC_2
         THEN Processed(st, <<>>, <<>>)
         ELSE respond(HrdCatServer_processCommand(
                          i, st, decodeUtf16LE(subarray(message, HRD_HEADER_SIZE,
                                                        Len(message)))))

\* What the 'data' handler leaves: the state, the bytes kept, the frames
\* written, the events emitted, and whether its loop ended.
Handled(st, buf, frames, events, returns) ==
    [state |-> st, buffer |-> buf, frames |-> frames, events |-> events,
     returns |-> returns]

\* The 'data' handler of HrdCatServer.handleConnection, from the buffer with
\* the new data appended: while a header is there, the message its size
\* field spans is cut off and processed.  A size field that cuts nothing off
\* leaves the buffer as it was, and the loop does not end.
RECURSIVE processMessages(_, _, _, _, _)
RECURSIVE cutMessage(_, _, _, _, _, _)

\* The rest of one turn of the loop, once the message is processed.
nextMessage(i, r, rest, frames, events) ==
    processMessages(i, r.state, rest, frames \o r.frames, events \o r.events)

\* One turn of the loop, with the size read from the header.
cutMessage(i, st, buf, msgSize, frames, events) ==
    IF Len(buf) < msgSize THEN Handled(st, buf, frames, events, TRUE)
    ELSE IF subarray(buf, msgSize, Len(buf)) = buf
         THEN Handled(st, buf, frames, events, FALSE)
         ELSE nextMessage(i, processMessage(i, st, subarray(buf, 0, msgSize)),
                          subarray(buf, msgSize, Len(buf)), frames, events)

processMessages(i, st, buf, frames, events) ==
    IF Len(buf) < HRD_HEADER_SIZE THEN Handled(st, buf, frames, events, TRUE)
    ELSE cutMessage(i, st, buf, readInt32LE(buf, 0), frames, events)

\* A request as the decoder's HRD client frames it: the size of the whole
\* frame, the two magics, a checksum of 0, the command in UTF-16LE and a NUL.
request(command) ==
    writeInt32LE(HRD_HEADER_SIZE + 2 * Len(command) + 2)
        \o <<205, 171, 52, 18>> \o <<52, 18, 205, 171>> \o <<0, 0, 0, 0>>
        \o utf16le(command) \o <<0, 0>>

\* Buffer.from(str, 'ascii'): what a client that speaks text sends.
RECURSIVE ascii(_)
ascii(str) ==
    IF str = "" THEN <<>>
    ELSE <<charCodeAt(str, 0)>> \o ascii(substringFrom(str, 1))

\* A frame whose second magic is wrong.
foreignFrame(command) ==
    LET m == request(command)
    IN SubSeq(m, 1, 8) \o <<0, 0, 0, 0>> \o SubSeq(m, 13, Len(m))

\* The set requests of the decoder, as the protocol writes them.
SetRequests ==
    {"set frequencies-hz 14076000 14076000", "set dropdown mode USB",
     "set button-select tx 1"}

\* The radio selector a client may put in front of a request.
Selector == "[1] "

\* What a client of a slice's HrdCatServer may send in one segment: whole
\* requests with and without the selector, a request in two segments, an
\* unknown command, a frame without the magics, and the text of a Kenwood
\* client.
HrdChunks ==
    { request(c) : c \in SetRequests }
    \cup { request(Selector \o c) : c \in SetRequests }
    \cup {request("get frequency"),
          SubSeq(request("get mode"), 1, 20),
          SubSeq(request("get mode"), 21, Len(request("get mode"))),
          request("xyzzy"),
          foreignFrame("get frequency"),
          ascii("FA;")}

\* A client connects to the HrdCatServer of slice i.
HrdAccept(i) ==
    /\ loopIdle
    /\ i \in catListening
    /\ i \notin hrdClients
    /\ hrdClients' = hrdClients \cup {i}
    /\ hrdBuffer' = [hrdBuffer EXCEPT ![i] = <<>>]
    /\ UNCHANGED <<sliceToInstance, sliceIndexMap, catServers, catListening,
                   catFrequency, catMode, pttState, pendingAdds, masterEvent>>
    /\ UNCHANGED <<procVars, clientVars, qsoVars, udpOut, exited, toolResult,
                   wireVars>>

\* The client of slice i disconnects: socket 'close'.
HrdSocketClose(i) ==
    /\ loopIdle
    /\ i \in hrdClients
    /\ hrdClients' = hrdClients \ {i}
    /\ UNCHANGED <<sliceToInstance, sliceIndexMap, catServers, catListening,
                   catFrequency, catMode, pttState, pendingAdds, masterEvent,
                   hrdBuffer>>
    /\ UNCHANGED <<procVars, clientVars, qsoVars, udpOut, exited, toolResult,
                   wireVars>>

\* Socket 'data' on the connection of slice i: the messages are processed,
\* their responses written, and each event is forwarded to the radio client
\* by the manager.
HrdData(i, data) ==
    \E r \in {processMessages(i, HrdState(i), hrdBuffer[i] \o data, <<>>, <<>>)} :
       /\ loopIdle
       /\ i \in hrdClients
       /\ r.returns
       /\ Len(r.buffer) <= MaxHrdBuffer
       /\ catFrequency' = [catFrequency EXCEPT ![i] = r.state.frequency]
       /\ catMode' = [catMode EXCEPT ![i] = r.state.mode]
       /\ pttState' = [pttState EXCEPT ![i] = r.state.pttState]
       /\ hrdBuffer' = [hrdBuffer EXCEPT ![i] = r.buffer]
       /\ hrdSent' = [slice |-> i, frames |-> r.frames]
       /\ IF r.events # <<>>
          THEN sendCommands([k \in 1 .. Len(r.events) |->
                                forwardCatEvent(i, r.events[k])])
          ELSE UNCHANGED <<commandSeq, lastWrites>>
       /\ UNCHANGED <<sliceToInstance, sliceIndexMap, catServers, catListening,
                      pendingAdds, masterEvent, hrdClients>>
       /\ UNCHANGED <<conn, slices, lastEvents, procVars, qsoVars, udpOut,
                      exited, toolResult, kenwoodVars, udpVars>>

NextProc ==
    \/ \E n \in Names, spawned \in BOOLEAN : ToolStartInstance(n, spawned)
    \/ \E n \in Names : ToolStopInstance(n)
    \/ \E n \in Names : KillTimerFires(n)
    \/ \E n \in Names : ChildExits(n)
    \/ \E n \in Names : ExitEvent(n)

Init ==
    /\ InitProc
    /\ InitClient
    /\ InitMaster
    /\ InitQso
    /\ InitKenwood
    /\ InitUdp
    /\ udpOut = <<>>
    /\ exited = FALSE
    /\ toolResult = NoResult

SpecProc == Init /\ [][NextProc]_vars

\* The radio client and the coordinator, under every slice status message.
NextSlices ==
    \/ Connect
    \/ ConnectEvent
    \/ CloseEvent
    \/ \E i \in Slices, msg \in Messages : Push(i, msg, TRUE)
    \/ \E i \in Slices : handleSliceAddedResumes(i, TRUE)

SpecSlices == Init /\ [][NextSlices]_vars

\* The message that allocates a slice.
InUseMessage == << <<"in_use", "1">> >>

\* The CAT servers, the radio session and the emergency stop, with slices
\* that are allocated and stay.
NextCat ==
    \/ Connect
    \/ ConnectEvent
    \/ CloseEvent
    \/ \E i \in Slices : Push(i, InUseMessage, TRUE)
    \/ \E i \in Slices : handleSliceAddedResumes(i, TRUE)
    \/ \E i \in Slices, hz \in CatFrequencies : CatSetFrequency(i, hz)
    \/ \E i \in Slices, m \in CatModes : CatSetMode(i, m)
    \/ \E i \in Slices, b \in CatButtons, st \in BOOLEAN : CatSetPtt(i, b, st)
    \/ ToolEmergencyStop

SpecCat == Init /\ [][NextCat]_vars

\* The event loop dispatches every socket event that is due.
FairSpecCat ==
    /\ SpecCat
    /\ WF_vars(ConnectEvent)

\* The Kenwood CAT servers with their clients, and the radio session.
NextKenwood ==
    \/ Connect
    \/ ConnectEvent
    \/ \E i \in Slices : CatAccept(i)
    \/ \E i \in Slices : CatSocketClose(i)
    \/ \E i \in Slices, data \in KenwoodChunks : CatData(i, data)

SpecKenwood == Init /\ [][NextKenwood]_vars

\* The status queries of the Kenwood dialect, over the states a slice's
\* CatServer may hold.
StatusChunks == {"IF;", "TX;", "RX;"}

NextIf ==
    \/ \E i \in Slices : CatAccept(i)
    \/ \E i \in Slices, f \in ReportedFrequencies, m \in ReportedModes :
          updateState(i, f, m)
    \/ \E i \in Slices, data \in StatusChunks : CatData(i, data)

SpecIf == Init /\ [][NextIf]_vars

\* The status messages of a slice that is retuned: in_use, RF_frequency, or
\* both in either order.
TunedFreqTexts == {"14.0740000", "2.000001"}
TunedPairs == { <<"RF_frequency", v>> : v \in TunedFreqTexts }
              \cup { <<"in_use", v>> : v \in {"0", "1"} }
TunedMessages == UNION { [1 .. k -> TunedPairs] : k \in 1 .. MaxKeys }

\* One slice of the radio is allocated, retuned and released.
NextTuned ==
    \/ Connect
    \/ ConnectEvent
    \/ CloseEvent
    \/ \E msg \in TunedMessages : Push(0, msg, TRUE)
    \/ handleSliceAddedResumes(0, TRUE)

SpecTuned == Init /\ [][NextTuned]_vars

\* The status messages that allocate and release a slice.
InUseMessages == { << <<"in_use", v>> >> : v \in {"0", "1"} }

\* Slices come and go while their decoders are spawned, fail to spawn, are
\* stopped and exit.
NextLife ==
    \/ Connect
    \/ ConnectEvent
    \/ \E i \in Slices, msg \in InUseMessages : Push(i, msg, TRUE)
    \/ \E i \in Slices, spawned \in BOOLEAN : handleSliceAddedResumes(i, spawned)
    \/ \E n \in Names : KillTimerFires(n)
    \/ \E n \in Names : ChildExits(n)
    \/ \E n \in Names : ExitEvent(n)

SpecLife == Init /\ [][NextLife]_vars

\* Status lines of the radio, and the same lines as two reads deliver them
\* when the stream is cut inside a key, between two pairs, or before the
\* newline.
StatusLines == {"S1|slice 0 in_use=1 RF_frequency=14.074000 mode=USB\n",
                "S1|slice 0 in_use=0\n",
                "S1|slice 0 RF_frequency=7.074000\n",
                "S1|slice 0 mode=USB in_use=1 RF_frequency=14.074000\n",
                "S1|slice 1 in_use=1 mode=DIGU\n"}

TornLines == { <<"S1|slice 0 in_use=1 RF_fre", "quency=14.074000 mode=USB\n">>,
               <<"S1|slice 0 in_use=1 ", "RF_frequency=14.074000 mode=USB\n">>,
               <<"S1|slice 0 in_use=1 RF_frequency=14.074000 mode=USB", "\n">>,
               <<"S1|slice 0 in_", "use=0\n">> }

StreamChunks == StatusLines \cup { t[1] : t \in TornLines }
                            \cup { t[2] : t \in TornLines }

\* The radio session as a byte stream that arrives in reads.
NextStream ==
    \/ Connect
    \/ ConnectEvent
    \/ CloseEvent
    \/ \E data \in StreamChunks : Data(data)
    \/ \E i \in Slices : handleSliceAddedResumes(i, TRUE)

SpecStream == Init /\ [][NextStream]_vars

\* The slices the radio reports in use in SpecHrd.
AllocatedSlices == {0}

\* The HRD CAT servers of allocated slices with their clients, and the
\* radio session.
NextHrd ==
    \/ Connect
    \/ ConnectEvent
    \/ \E i \in AllocatedSlices : Push(i, InUseMessage, TRUE)
    \/ \E i \in Slices : handleSliceAddedResumes(i, TRUE)
    \/ \E i \in Slices : HrdAccept(i)
    \/ \E i \in Slices : HrdSocketClose(i)
    \/ \E i \in Slices, data \in HrdChunks : HrdData(i, data)

SpecHrd == Init /\ [][NextHrd]_vars

\* The telemetry listener and the reply command.
NextUdp ==
    \/ \E d \in Datagrams : Message(d)
    \/ SentArrives
    \/ \E n \in Names, time \in ReplyTimes, snr \in ReplySnrs,
          deltaTime \in ReplyDeltaTimes, deltaFrequency \in ReplyDeltaFrequencies,
          mode \in ReplyModes, message \in ReplyMessages :
          ToolReplyToStation(n, time, snr, deltaTime, deltaFrequency, mode,
                             message)

SpecUdp == Init /\ [][NextUdp]_vars

NextQso ==
    \/ \E n \in Names : ToolStartInstance(n, TRUE)
    \/ \E n \in Names : ToolExecuteQso(n)
    \/ \E n \in Names : ToolHaltTx(n)
    \/ \E n \in Names, kind \in DecodeKinds : Decode(n, kind)
    \/ \E q \in QsoIds : QsoSent(q)
    \/ \E q \in QsoIds, tolerant \in BOOLEAN : QsoTimeout(q, tolerant)
    \/ Shutdown

SpecQso == Init /\ [][NextQso]_vars

\* A QsoStateMachine arms a timer on every state entry, and the event loop
\* runs the callback of a timer that is due.
FairSpecQso ==
    /\ SpecQso
    /\ \A q \in QsoIds : WF_vars(\E tolerant \in BOOLEAN : QsoTimeout(q, tolerant))

\* The event loop runs every due timer callback and every pending 'exit'
\* handler.
FairSpecProc ==
    /\ SpecProc
    /\ \A n \in Names : WF_vars(KillTimerFires(n))
    /\ \A n \in Names : WF_vars(ExitEvent(n))

\* ======================================================================
\* Claims about the Process Supervisor
\* ======================================================================

\* C5: after stop is requested for a running instance the child is first
\* sent SIGTERM, and when the 5 s timer of that stop expires with the child
\* still alive the child is sent SIGKILL.
C5_TermThenKillIfAlive ==
    [][\A n \in Names :
         /\ (killTimers'[n] = killTimers[n] + 1 /\ child[n] = "running")
              => "SIGTERM" \in signals'[n]
         /\ (killTimers'[n] = killTimers[n] - 1 /\ child[n] = "running")
              => ("SIGTERM" \in signals[n] /\ "SIGKILL" \in signals'[n])]_vars

\* C6: after stop_instance(name) has reported success for a running child,
\* the instance is eventually removed from the registry.
C6_StoppedInstanceRemoved ==
    \A n \in Names :
        (toolResult = Result("stop_instance", n, FALSE) /\ child[n] = "running")
            ~> (n \notin instances)

\* ======================================================================
\* Claims about the radio client, the CAT servers and the coordinator
\* ======================================================================

\* C1: after every CAT transmit toggle at most one slice has transmit set;
\* PTT-on for one slice leaves no other slice transmitting.
C1_AtMostOneTransmit ==
    Cardinality({ i \in Slices : pttState[i] }) <= 1

\* C4: a slice whose in_use goes from 0 to 1 yields exactly 'slice-added'
\* (then 'slice-updated'), one whose in_use goes from 1 to 0 yields exactly
\* 'slice-removed', and a message that leaves in_use as it was yields
\* neither.
C4_OneAddedOneRemoved ==
    [][\A i \in Slices :
         /\ slices'[i].active # slices[i].active => lastEvents'.slice = i
         /\ (lastEvents'.slice = i
             /\ (slices' # slices \/ lastEvents' # lastEvents))
              => lastEvents'.events =
                    IF ~slices[i].active /\ slices'[i].active
                    THEN <<"slice-added", "slice-updated">>
                    ELSE IF slices[i].active /\ ~slices'[i].active
                         THEN <<"slice-removed", "slice-updated">>
                         ELSE <<"slice-updated">>]_vars

\* A slice was allocated and released again, and its release was announced.
C4_Witness ==
    \E i \in Slices :
        /\ slices[i].present /\ ~slices[i].active
        /\ lastEvents = [slice |-> i,
                         events |-> <<"slice-removed", "slice-updated">>]

\* C7: after an emergency stop no slice has transmit set.
C7_EmergencyStopClearsTransmit ==
    [][ToolEmergencyStop => \A i \in Slices : ~pttState'[i]]_vars

\* C8: after the radio session closes, the client connects again.
C8_ReconnectsAfterClose ==
    (conn = "closed") ~> (conn = "up")

\* C9: while the radio session is down a CAT set of frequency, mode or PTT
\* is not applied to the state the CAT server holds, and nothing is written
\* to the radio.
C9_CatSetRejectedWhileDown ==
    [][\A i \in Slices :
         (/\ ~connected
          /\ \/ \E hz \in CatFrequencies : CatSetFrequency(i, hz)
             \/ \E m \in CatModes : CatSetMode(i, m)
             \/ \E b \in CatButtons, st \in BOOLEAN : CatSetPtt(i, b, st))
           => /\ catFrequency'[i] = catFrequency[i]
              /\ catMode'[i] = catMode[i]
              /\ pttState'[i] = pttState[i]
              /\ lastWrites' = <<>>]_vars

\* ======================================================================
\* Claims about QSOs and the operator's tools
\* ======================================================================

\* The number of 'qso-complete' and 'qso-failed' emitted for QSO q.
terminalEvents(q) == qsoEvents[q].complete + qsoEvents[q].failed

C3_OneQsoPerInstance ==
    [][/\ \A n \in Names :
            Cardinality({ q \in QsoIds :
                            /\ qsoInstance'[q] = n
                            /\ qsoState'[q] \notin {"none", "Complete", "Failed"} })
                <= 1
       /\ \A n \in Names :
            (ToolExecuteQso(n) /\ activeQsos[n] # 0)
               => (toolResult'.isError /\ UNCHANGED qsoVars)
       /\ \A q \in QsoIds :
            (qsoState[q] = "none" /\ qsoState'[q] # "none")
               => \A p \in QsoIds :
                     (p # q /\ qsoState[p] # "none"
                      /\ qsoInstance[p] = qsoInstance'[q])
                        => terminalEvents(p) = 1]_vars

\* The second QSO of an instance runs, started after the first one ended, and
\* a further start for the instance has been refused.
C3_Witness ==
    \E n \in Names :
        /\ toolResult = Result("execute_qso", n, TRUE)
        /\ activeQsos[n] = 2 /\ Running(2)
        /\ qsoInstance[1] = n /\ Terminal(qsoState[1])

\* C10: an operator command that names an instance that does not exist
\* returns an error and has no other effect: no QSO is created and no
\* datagram is sent.
C10_UnknownInstanceRejected ==
    [][\A n \in Names :
         (n \notin instances
          /\ (ToolExecuteQso(n) \/ ToolHaltTx(n) \/ ToolStopInstance(n)))
           => /\ toolResult'.isError
              /\ UNCHANGED qsoVars
              /\ udpOut' = <<>>]_vars

\* ======================================================================
\* Claims about the Kenwood dialect of the CAT server
\* ======================================================================

\* C11: with the radio connected, a client of slice i that sends the
\* frequency set `FA00014076000;` followed by the query `FA;` makes the
\* server send the radio exactly one command, `slice tune i 14.076000`, and
\* is answered `FA00014076000;`; and every `FA;` query is answered with
\* `FA`, the slice's frequency zero-padded to 11 digits, and `;`.
C11_FrequencySetTunesAndReadsBack ==
    [][\A i \in Slices :
         /\ (connected /\ buffer[i] = "" /\ CatData(i, "FA00014076000;FA;"))
              => /\ lastWrites' = <<[seq |-> commandSeq,
                                     cmd |-> Cmd("slice tune", i, "14.076000")]>>
                 /\ commandSeq' = commandSeq + 1
                 /\ sliceState'[i].frequency = 14076000
                 /\ written' = [slice |-> i,
                                responses |-> <<"FA00014076000;">>]
         /\ (buffer[i] = "" /\ CatData(i, "FA;"))
              => /\ written'.slice = i
                 /\ Len(written'.responses) = 1
                 /\ LET r == written'.responses[1]
                    IN /\ Len(r) = 14
                       /\ SubSeq(r, 1, 2) = "FA" /\ SubSeq(r, 14, 14) = ";"
                       /\ \A k \in 3 .. 13 : isDigit(SubSeq(r, k, k))
                       /\ parseInt(SubSeq(r, 3, 13)).n = sliceState[i].frequency
      ]_vars

\* The radio was sent the tune command of a frequency set, and the query
\* that followed it was answered with the new frequency.
C11_Witness ==
    \E i \in Slices :
        /\ connected
        /\ Len(lastWrites) = 1
        /\ lastWrites[1].cmd = Cmd("slice tune", i, "14.076000")
        /\ written = [slice |-> i, responses |-> <<"FA00014076000;">>]
        /\ sliceState[i].frequency = 14076000

\* C12: `MD2;` sent while the slice's mode is DIGU leaves the mode DIGU.
C12_DataFlavorPreserved ==
    [][\A i \in Slices :
         (buffer[i] = "" /\ sliceState[i].mode = "DIGU" /\ CatData(i, "MD2;"))
            => sliceState'[i].mode = "DIGU"]_vars

\* C13: the reply to an `IF;` query is `IF`, the frequency zero-padded to
\* 11 digits, 5 spaces, `+00000000`, the tx digit, one mode digit and
\* `0000  ;` (four zeros, two spaces, semicolon).
C13_IfResponseLayout ==
    [][\A i \in Slices :
         (buffer[i] = "" /\ CatData(i, "IF;"))
            => /\ written'.slice = i
               /\ Len(written'.responses) = 1
               /\ LET r == written'.responses[1]
                  IN /\ SubSeq(r, 1, 2) = "IF"
                     /\ \A k \in 3 .. 13 : isDigit(SubSeq(r, k, k))
                     /\ parseInt(SubSeq(r, 3, 13)).n = sliceState[i].frequency
                     /\ SubSeq(r, 14, 27) = "     +00000000"
                     /\ SubSeq(r, 28, 28) = (IF sliceState[i].tx THEN "1" ELSE "0")
                     /\ isDigit(SubSeq(r, 29, 29))
                     /\ SubSeq(r, 30, Len(r)) = "0000  ;"]_vars

\* ======================================================================
\* Claims about the telemetry datagrams
\* ======================================================================

\* C14: every Reply datagram the sender sends ends with the byte
\* low_confidence = 0 followed by the byte modifiers = 0x02.
C14_ReplyEndsWithModifiers ==
    replyPacket # <<>>
        => /\ replyPacket[Len(replyPacket) - 1] = 0
           /\ replyPacket[Len(replyPacket)] = 2

\* C19: a datagram of 12 bytes or more that is a message cut short, ending
\* before the end of the fields and strings it announces, makes the listener
\* emit no event.
C19_ShortReadDropped ==
    (\E m \in WsjtxMessages :
        /\ Len(datagram) >= 12
        /\ Len(datagram) < Len(m)
        /\ datagram = SubSeq(m, 1, Len(datagram)))
      => emitted = <<>>

\* C20: a datagram of fewer than 12 bytes, or whose first four bytes are not
\* the magic AD BC CB DA, makes the listener emit no event.
C20_ShortOrForeignDropped ==
    (Len(datagram) < 12 \/ SubSeq(datagram, 1, 4) # <<173, 188, 203, 218>>)
      => emitted = <<>>

\* A complete Decode message under the byte-swapped magic arrived and was
\* dropped.
C20_Witness ==
    /\ Len(datagram) = Len(DecodeMessage)
    /\ SubSeq(datagram, 1, 4) = <<218, 203, 188, 173>>
    /\ SubSeq(datagram, 5, Len(datagram)) = SubSeq(DecodeMessage, 5, Len(DecodeMessage))
    /\ emitted = <<>>

\* ======================================================================
\* Claims about the HRD CAT server
\* ======================================================================

\* C15: a HRD request sent behind a `[context] ` prefix produces the same
\* state change, the same emitted events and the same response as the
\* request sent without the prefix: the step a prefixed set request makes is
\* a step of the request itself.
C15_PrefixedRequestSameAsPlain ==
    [][\A i \in Slices, c \in SetRequests :
          (hrdBuffer[i] = <<>> /\ HrdData(i, request(Selector \o c)))
              => HrdData(i, request(c))]_vars

\* The bytes of a frame's payload as text, up to its NUL.
payloadText(frame) ==
    decodeUtf16LE(subarray(frame, HRD_HEADER_SIZE, Len(frame)))

\* C16: a command that is not recognised is answered with the dialect's
\* negative acknowledgement - no bytes from the Kenwood server, one frame
\* saying ERROR or nothing from the HRD server - and the connection stays
\* open.
C16_UnknownCommandRefused ==
    [][\A i \in Slices :
          /\ (buffer[i] = "" /\ CatData(i, "ZZ;"))
                => /\ written'.responses = <<>>
                   /\ i \in clients'
          /\ (hrdBuffer[i] = <<>> /\ HrdData(i, request("xyzzy")))
                => /\ Len(hrdSent'.frames) = 1
                   /\ payloadText(hrdSent'.frames[1]) \in {"ERROR", ""}
                   /\ i \in hrdClients']_vars

\* The first byte of bytes that is not white space, from offset k; -1 when
\* there is none.
RECURSIVE firstNonBlank(_, _)
firstNonBlank(bytes, k) ==
    IF k >= Len(bytes) THEN -1
    ELSE IF bytes[k + 1] \in {9, 10, 13, 32} THEN firstNonBlank(bytes, k + 1)
         ELSE bytes[k + 1]

\* The dialect the first bytes of a connection select: C for a HRD magic in
\* bytes 4..8, else A for an upper-case first byte and a `;`, else B.
Dialect(bytes) ==
    IF subarray(bytes, 4, 8) \in {<<205, 171, 52, 18>>, <<18, 52, 171, 205>>}
    THEN "C"
    ELSE IF firstNonBlank(bytes, 0) \in 65 .. 90
               /\ \E k \in 1 .. Len(bytes) : bytes[k] = 59
         THEN "A"
         ELSE "B"

\* Buffer.toString('ascii')
RECURSIVE asciiText(_, _)
asciiText(bytes, k) ==
    IF k >= Len(bytes) THEN ""
    ELSE fromCharCode(bytes[k + 1]) \o asciiText(bytes, k + 1)

\* What dialect A answers to the text of bytes, for the state of slice i.
KenwoodAnswer(i, bytes) ==
    LET r == processBuffer([frequency |-> catFrequency[i], mode |-> catMode[i],
                            tx |-> pttState[i]],
                           asciiText(bytes, 0), <<>>, <<>>)
    IN [k \in 1 .. Len(r.responses) |-> ascii(r.responses[k])]

\* C17: the first bytes a connection sends select its dialect, and the
\* connection is served in it: first bytes that select dialect A are
\* answered as dialect A answers them, and what is written for first bytes
\* that select dialect C is framed with the two magics.
C17_ServedInDetectedDialect ==
    [][\A i \in Slices, data \in HrdChunks :
          (hrdSent.slice = -1 /\ HrdData(i, data))
              => /\ Dialect(data) = "A"
                    => hrdSent'.frames = KenwoodAnswer(i, data)
                 /\ Dialect(data) = "C"
                    => \A k \in 1 .. Len(hrdSent'.frames) :
                          subarray(hrdSent'.frames[k], 4, 12)
                              = <<205, 171, 52, 18, 52, 18, 205, 171>>]_vars

\* The decimal digits of a natural number.
RECURSIVE DecimalDigits(_)
DecimalDigits(n) ==
    IF n < 10 THEN <<n>> ELSE Append(DecimalDigits(n \div 10), n % 10)

\* The frame that carries hz in decimal: its own length, the two magics, a
\* checksum of 0, and each digit and the NUL as a little-endian code unit.
FrequencyFrame(hz) ==
    LET d == DecimalDigits(hz)
    IN <<HRD_HEADER_SIZE + 2 * Len(d) + 2, 0, 0, 0>>
       \o <<205, 171, 52, 18>> \o <<52, 18, 205, 171>> \o <<0, 0, 0, 0>>
       \o [k \in 1 .. 2 * Len(d) |->
              IF k % 2 = 1 THEN 48 + d[(k + 1) \div 2] ELSE 0]
       \o <<0, 0>>

\* C18: a request frame with both magics and the command `get frequency` is
\* answered with exactly one frame of the same layout - a length equal to
\* the frame's byte length, the two magics, checksum 0 - whose payload is
\* the slice's current frequency in decimal, UTF-16LE, ended by a NUL.
C18_GetFrequencyFramed ==
    [][\A i \in Slices :
          (hrdBuffer[i] = <<>> /\ HrdData(i, request("get frequency")))
              => /\ hrdSent'.frames = <<FrequencyFrame(catFrequency[i])>>
                 /\ readInt32LE(hrdSent'.frames[1], 0) = Len(hrdSent'.frames[1])]_vars

\* C18 witness: the server of slice 0 has answered `get frequency` with the
\* frequency a client set before.
C18_Witness ==
    /\ hrdSent.slice = 0
    /\ hrdSent.frames = <<FrequencyFrame(14076000)>>
    /\ catFrequency[0] = 14076000

\* ======================================================================
\* Claims about the supervisor, the coordinator and the datagram paths
\* ======================================================================

\* C21: stopping an instance a second time, while it is terminating or
\* after it has exited, raises nothing and leaves the supervisor as it
\* was: the stop returns (true while registered, false once removed) and
\* changes neither the registry nor the reports; and 'instance-stopped' is
\* reported in the very step that removes the instance, once.
C21_DoubleStopHarmless ==
    [][\A n \in Names :
          /\ (stoppedEvents'[n] # stoppedEvents[n]
                 \/ (n \in instances /\ n \notin instances'))
                => /\ stoppedEvents'[n] = stoppedEvents[n] + 1
                   /\ n \in instances
                   /\ n \notin instances'
          /\ (ToolStopInstance(n) /\ (killTimers[n] > 0 \/ n \notin instances))
                => /\ instances' = instances
                   /\ stoppedEvents' = stoppedEvents
                   /\ toolResult' = Result("stop_instance", n, n \notin instances)]_vars

\* C21 witness: an instance was stopped twice while its child still runs,
\* and the second stop reported success.
C21_Witness ==
    \E n \in Names :
        /\ killTimers[n] = 2
        /\ n \in instances
        /\ child[n] = "running"
        /\ toolResult = Result("stop_instance", n, FALSE)

\* The strings and the message types the round trip is checked for.
RoundTripStrings == {"", "W", "WS", "~", "FT8", "Slice-A", "CQ K1ABC FN42"}
RoundTripTypes == {0, 1, 2, 4, 6, 8, 15}

\* The event the listener emits for a message that is a header only.
headerEvent(messageType, id) ==
    CASE messageType = 0 -> <<UdpEvent("heartbeat", id, "")>>
      [] messageType = 6 -> <<UdpEvent("close", id, "")>>
      [] OTHER -> <<>>

\* C22: what the encoder writes the decoder reads back unchanged.  A string
\* written by writeQString is read by readQString as the same string, with
\* the offset after it; the empty string is written as the null string and
\* read as empty with the offset advanced by 4; the type and the id of a
\* header built by createHeader are read back; a header that arrives as a
\* datagram is emitted with its id; and the id of the Reply packet sent is
\* read back as the instance the tool named.
C22_EncodeDecodeRoundTrip ==
    /\ \A str \in RoundTripStrings :
          readQString(writeQString(str), 0)
              = [ok |-> TRUE, value |-> str,
                 newOffset |-> IF str = "" THEN 4 ELSE 4 + 2 * Len(str)]
    /\ writeQString("") = <<255, 255, 255, 255>>
    /\ \A t \in RoundTripTypes, id \in RoundTripStrings :
          /\ magicOk(createHeader(t, id))
          /\ readUInt32BE(createHeader(t, id), 8) = t
          /\ readQString(createHeader(t, id), 12).value = id
          /\ datagram = createHeader(t, id) => emitted = headerEvent(t, id)
    /\ replyPacket # <<>>
          => /\ readUInt32BE(replyPacket, 8) = 4
             /\ readQString(replyPacket, 12).value = toolResult.name

\* C22 witness: a Heartbeat header of instance "WS" was received and emitted
\* with that id, and a Reply packet was sent.
C22_Witness ==
    /\ datagram = createHeader(0, "WS")
    /\ emitted = <<UdpEvent("heartbeat", "WS", "")>>
    /\ replyPacket # <<>>
    /\ toolResult.name = "Slice-B"

\* C23: the frequency stored for a slice is a whole number of Hz: the MHz
\* value pushed, times 10^6, with nothing left over.
C23_FrequencyWholeHz ==
    \A i \in Slices :
        /\ slices[i].frequencyExcess = 0
        /\ slices[i].frequency
              \in {0} \cup {parseFloatTimes1e6(v) : v \in TunedFreqTexts}

\* C24: once a slice has been reported released and every handler started for
\* it has run to its end, nothing of it remains: no CAT server listens for
\* it, no instance is mapped to it, and its decoder, if still registered,
\* has been told to terminate.  This holds also when the release arrives
\* while handleSliceAdded waits for the CAT server to listen.
C24_RemovedSliceLeavesNothing ==
    \A i \in Slices :
        (slices[i].present /\ ~slices[i].active /\ pendingAdds[i] = <<>>)
          => /\ i \notin catListening
             /\ i \notin catServers
             /\ i \notin sliceToInstance
             /\ InstanceNameOf(i) \in instances
                   => "SIGTERM" \in signals[InstanceNameOf(i)]

\* C25: for a slice that was added and not removed, whose CAT server listens
\* and whose add has run to its end, a CAT query returns the values last
\* pushed for the slice: `get frequency` its frequency and `get mode` its
\* mode, whether they were pushed before, during or after the add.
C25_CatReturnsPushedValues ==
    \A i \in Slices :
        (slices[i].active /\ i \in catListening /\ pendingAdds[i] = <<>>)
          => /\ HrdCatServer_processCommand(i, HrdState(i),
                                            "get frequency").response
                   = ToString(slices[i].frequency)
             /\ slices[i].mode # ""
                   => HrdCatServer_processCommand(i, HrdState(i),
                                                  "get mode").response
                         = slices[i].mode

\* C26: a slice that is in use, and whose add has run to its end, has a CAT
\* server listening, a registered decoder instance and a mapping to it;
\* this holds for a slice that was released and is in use again, also when
\* the decoder of its first allocation has not exited yet.
C26_ReaddedSliceServedAgain ==
    \A i \in Slices :
        (slices[i].active /\ pendingAdds[i] = <<>>)
          => /\ i \in catListening
             /\ i \in catServers
             /\ i \in sliceToInstance
             /\ InstanceNameOf(i) \in instances

\* C27: when the exit of a decoder that is mapped to a slice is handled,
\* SliceMasterLogic emits 'instance-stopped' for that slice and instance.
C27_ExitReportedForSlice ==
    [][\A i \in Slices :
          (ExitEvent(InstanceNameOf(i)) /\ i \in sliceToInstance)
            => masterEvent' = MasterEvent("instance-stopped", i)]_vars

\* C28: an instance whose child could not be spawned (the 'error' event
\* came, which changes no state, and no 'exit' follows) is not registered as
\* running: it is not listed with running = true, and its name can be
\* started again.
C28_FailedSpawnNotRunning ==
    \A n \in Names :
        child[n] = "spawnfail"
          => /\ ~(n \in instances /\ isRunning(n))
             /\ ~startInstanceThrows(n)

\* C29: the decoder launched for a slice is configured to send its telemetry
\* to the port the telemetry listener is bound on.
C29_TelemetryPortIsListened ==
    \A i \in sliceToInstance : UDPServerPort(i) = ListenerPort

\* C30: a command datagram is not sent to the port the core's own telemetry
\* listener is bound on, so the listener never receives a command the core
\* sent.
C30_CommandNotSentToListener ==
    replyPacket # <<>>
      => /\ targetPort # ListenerPort
         /\ datagram # replyPacket

\* ----------------------------------------------------------------------
\* Claims about termination, the radio stream and the cached CAT state
\* ----------------------------------------------------------------------

\* A frame header with good magics and the given value in its size field.
headerOfSize(msgSize) ==
    writeInt32LE(msgSize) \o <<205, 171, 52, 18>> \o <<52, 18, 205, 171>>
        \o <<0, 0, 0, 0>>

\* Headers whose size field is zero, negative or smaller than the header.
HostileChunks == { headerOfSize(n) : n \in {0, 4, -4, -16} }

\* C31: whatever bytes a client sends on its CAT connection, the 'data'
\* handler returns: for every connected client, and every chunk it may
\* send next, the loop over the buffered messages ends.
C31_DataHandlerReturns ==
    \A i \in hrdClients, data \in HrdChunks \cup HostileChunks :
        processMessages(i, HrdState(i), hrdBuffer[i] \o data, <<>>, <<>>).returns

\* What the slice messages of a read do, for at most one message: the slice
\* it leaves stored and the events it emits.
effectOf(ms) ==
    IF ms = <<>> THEN [index |-> "", slice |-> NewSlice, events |-> <<>>]
    ELSE [index |-> ms[1].index,
          slice |-> storedSlice(parsedSlice(parseInt(ms[1].index).n,
                                            ms[1].pairs)),
          events |-> sliceEvents(parseInt(ms[1].index).n,
                                 parsedSlice(parseInt(ms[1].index).n,
                                             ms[1].pairs))]

\* C32: a status line delivered in two reads has the same effect as the
\* line delivered in one read: the same slice state and the same events.
C32_SplitReadsSameEffect ==
    \A t \in TornLines :
        /\ Len(handleData(t[1]) \o handleData(t[2])) <= MaxPerRead
        /\ effectOf(handleData(t[1]) \o handleData(t[2]))
              = effectOf(handleData(t[1] \o t[2]))

\* The value of the last pair of a message that has the given key, or the
\* given value when no pair has it.
RECURSIVE lastValue(_, _, _)
lastValue(pairs, key, value) ==
    IF pairs = <<>> THEN value
    ELSE lastValue(Tail(pairs), key,
                   IF Head(pairs)[1] = key THEN Head(pairs)[2] ELSE value)

\* What C33 asks of the step that handles the one slice message m.
addedCarriesAll(m, i) ==
    (~slices[i].active /\ slices'[i].active)
      => /\ lastEvents' = [slice |-> i,
                           events |-> <<"slice-added", "slice-updated">>]
         /\ lastValue(m.pairs, "RF_frequency", "") # ""
               => slices'[i].frequency
                     = parseFloatTimes1e6(lastValue(m.pairs, "RF_frequency", ""))
         /\ lastValue(m.pairs, "mode", "") # ""
               => slices'[i].mode = lastValue(m.pairs, "mode", "")

\* C33: when a status line turns a slice's in_use from 0 to 1, the slice that
\* 'slice-added' carries has every key of the line merged, wherever in the
\* line in_use stands.
C33_AddedCarriesFullState ==
    [][(\E i \in Slices : ~slices[i].active /\ slices'[i].active)
          => \A line \in StatusLines :
                Data(line) => addedCarriesAll(handleData(line)[1],
                                              parseInt(handleData(line)[1].index).n)]_vars

\* C33 witness: 'slice-added' was emitted for slice 0 with the frequency and
\* the mode of its line, and the CAT server was built with that frequency.
C33_Witness ==
    /\ lastEvents = [slice |-> 0, events |-> <<"slice-added", "slice-updated">>]
    /\ slices[0].active
    /\ slices[0].frequency = 14074000
    /\ slices[0].mode = "USB"
    /\ catFrequency[0] = 14074000
    /\ pendingAdds[0] = <<"ok">>

\* The message msg applied to slice i once more changes nothing of the slice
\* and emits neither 'slice-added' nor 'slice-removed'.
appliedAgainIsQuiet(i, msg) ==
    /\ storedSlice(parsedSlice(i, msg)) = slices[i]
    /\ ~emitsAdded(i, parsedSlice(i, msg))
    /\ ~emitsRemoved(i, parsedSlice(i, msg))

\* C34: once a radio push message has been applied to a slice, applying the
\* same message again leaves the slice as it is and emits no further
\* 'slice-added' or 'slice-removed'.
C34_PushIsIdempotent ==
    [][\A i \in Slices :
          lastEvents'.slice = i
             => \A msg \in Messages \cup TunedMessages :
                   Push(i, msg, TRUE) => appliedAgainIsQuiet(i, msg)']_vars

\* C34 witness: a message that allocates slice 0 and sets its frequency has
\* been applied a second time: the add is still waiting for its CAT server
\* and the last message emitted 'slice-updated' alone.
C34_Witness ==
    /\ lastEvents = [slice |-> 0, events |-> <<"slice-updated">>]
    /\ slices[0].active
    /\ slices[0].frequency = 2000001
    /\ slices[0].frequencyExcess = 2
    /\ pendingAdds[0] = <<"ok">>
    /\ 0 \notin sliceToInstance

\* C35: when the handling of a 'slice-added' has run to its end with the
\* CAT server listening, and no status message has arrived since the one
\* that emitted it, `get frequency` returns the frequency that the slice had
\* in the event and `get mode` the mode it had there, if it had one.
C35_CatSeededFromAddedSlice ==
    \A i \in Slices :
        ( /\ lastEvents = [slice |-> i,
                           events |-> <<"slice-added", "slice-updated">>]
          /\ pendingAdds[i] = <<>>
          /\ i \in catListening
          /\ i \in sliceToInstance )
          => /\ HrdCatServer_processCommand(i, HrdState(i),
                                            "get frequency").response
                   = ToString(slices[i].frequency)
             /\ slices[i].mode # ""
                   => HrdCatServer_processCommand(i, HrdState(i),
                                                  "get mode").response
                         = slices[i].mode

\* The sequence numbers of the commands in writes, in the order written.
seqsOf(writes) == [k \in 1 .. Len(writes) |-> writes[k].seq]

\* C36: the commands written to the radio socket in one step are numbered
\* from the number after that of the last command written before (commandSeq
\* is that number, 1 at first), each one greater than the one before it; a
\* step that leaves the session not connected writes nothing and takes no
\* number.
C36_SequenceByOne ==
    [][/\ IF commandSeq' # commandSeq
          THEN /\ commandSeq' > commandSeq
               /\ seqsOf(lastWrites')
                     = [k \in 1 .. commandSeq' - commandSeq |-> commandSeq + k - 1]
          ELSE lastWrites' = lastWrites \/ lastWrites' = <<>>
       /\ conn' # "up"
             => /\ commandSeq' = commandSeq
                /\ lastWrites' = lastWrites \/ lastWrites' = <<>>]_vars

\* C36 witness: commands were written, the session closed, and a command
\* issued since then was dropped.
C36_Witness ==
    /\ conn = "closed"
    /\ commandSeq = 4
    /\ lastWrites = <<>>

\* ======================================================================
\* Telemetry: the listener's datagrams and the manager's 'decode' listener
\* ======================================================================

\* Variant of qsoOf: the decode goes to the QSO of whichever instance has one.
anyQsoOf(id) ==
    IF \E n \in Names : activeQsos[n] # 0
    THEN activeQsos[CHOOSE n \in Names : activeQsos[n] # 0]
    ELSE 0

\* `this.activeQsos.get(decode.id)` of the 'decode' listener; 0: undefined.
qsoOf(id) == IF id \in Names THEN activeQsos[id] ELSE 0

\* What the decoders report hearing, for QSOs of K1ABC with W9XYZ.
TelemetryTexts == {"K1ABC W9XYZ -12", "K1ABC W9XYZ RR73", "CQ W9XYZ EN37"}

\* The kind of a decode text for such a QSO.
kindOf(text) ==
    CASE text = "K1ABC W9XYZ -12" -> "report"
      [] text = "K1ABC W9XYZ RR73" -> "final"
      [] OTHER -> "other"

\* The manager's 'decode' listener for the event ev of the listener: the
\* decode is handed to the QSO stored under the id it carries, if any.
forwardDecode(ev) ==
    IF /\ ev.type = "decode"
       /\ qsoOf(ev.id) # 0
       /\ Running(qsoOf(ev.id))
       /\ matches(qsoState[qsoOf(ev.id)], kindOf(ev.text))
    THEN enterState(qsoOf(ev.id), advancedStateOf(qsoState[qsoOf(ev.id)]),
                    qsoRetries[qsoOf(ev.id)])
    ELSE UNCHANGED qsoVars

\* Socket 'message' with the manager's listeners attached: the datagram is
\* parsed inside try/catch, and the event it yields is emitted and handled
\* before the handler returns.
Telemetry(d) ==
    \E evs \in {parseMessage(d)} :
        /\ ~exited
        /\ datagram' = d
        /\ emitted' = evs
        /\ IF evs = <<>> THEN UNCHANGED qsoVars ELSE forwardDecode(evs[1])
        /\ UNCHANGED <<replyPacket, kenwoodVars, hrdSent>>
        /\ UNCHANGED <<procVars, clientVars, masterVars, udpOut, exited,
                       toolResult>>

\* The Decode datagram of the decoder instance id that heard text.
decodeOf(id, text) ==
    createHeader(2, id) \o writeUInt8(1) \o writeUInt32BE(43200000)
        \o writeInt32BE(-12) \o writeDoubleBE(0) \o writeUInt32BE(1500)
        \o writeQString("~") \o writeQString(text)

\* What arrives: the decodes of both instances, a heartbeat, and datagrams
\* that do not parse: one cut inside its header, one cut inside its last
\* string and one under another magic.
TelemetryDatagrams ==
    { decodeOf(n, t) : n \in Names, t \in TelemetryTexts }
    \cup { createHeader(0, "Slice-A"),
           SubSeq(decodeOf("Slice-A", "K1ABC W9XYZ -12"), 1, 10),
           SubSeq(decodeOf("Slice-B", "K1ABC W9XYZ -12"), 1,
                  Len(decodeOf("Slice-B", "K1ABC W9XYZ -12")) - 3),
           <<0>> \o Tail(decodeOf("Slice-A", "K1ABC W9XYZ RR73")) }

\* QSOs run on both instances while their decoders report.
NextTelemetry ==
    \/ \E n \in Names : ToolExecuteQso(n)
    \/ \E q \in QsoIds : QsoSent(q)
    \/ \E d \in TelemetryDatagrams : Telemetry(d)

SpecTelemetry == Init /\ [][NextTelemetry]_vars

\* The 'message' handler took the step for a datagram that yields evs: a
\* decode in it has advanced the QSO of the instance it names if it
\* matches, and the QSO of every other instance is as before; a datagram
\* that yields nothing leaves every QSO and the process as they were.
deliveredInStep(evs) ==
    /\ \A n \in Names :
          activeQsos[n] # 0
            => qsoState'[activeQsos[n]]
                 = IF /\ evs # <<>>
                      /\ evs[1].type = "decode"
                      /\ evs[1].id = n
                      /\ matches(qsoState[activeQsos[n]], kindOf(evs[1].text))
                   THEN advancedStateOf(qsoState[activeQsos[n]])
                   ELSE qsoState[activeQsos[n]]
    /\ evs = <<>> => UNCHANGED <<qsoVars, exited>>

\* C37: every datagram is handled in the step of its arrival: a decode in it
\* reaches the QSO of the instance it names, and no other, before the next
\* datagram is handled; a datagram that does not parse changes nothing that
\* the handling of the datagrams after it depends on, so they are handled
\* as if it had not arrived.
C37_TelemetryInArrivalOrder ==
    [][\A d \in TelemetryDatagrams :
          (datagram' = d /\ Telemetry(d)) => deliveredInStep(parseMessage(d))]_vars

\* C37 witness: both instances run a QSO; after other datagrams, the report
\* heard by Slice-A has advanced the QSO of Slice-A past its report phase
\* and left that of Slice-B waiting for its first reply.
C37_Witness ==
    /\ datagram = decodeOf("Slice-A", "K1ABC W9XYZ -12")
    /\ activeQsos["Slice-A"] # 0
    /\ activeQsos["Slice-B"] # 0
    /\ qsoState[activeQsos["Slice-A"]] = "SendingConfirm"
    /\ qsoState[activeQsos["Slice-B"]] = "WaitingReply"

\* A status message of slice i was handled as an update: nothing was
\* written to the radio, no PTT state changed, no server, mapping or process
\* changed, and of the CAT state only the cached frequency and mode of
\* slice i may differ, the frequency being the slice's.
refreshedOnly(i) ==
    /\ UNCHANGED <<commandSeq, lastWrites, pttState>>
    /\ UNCHANGED <<sliceToInstance, sliceIndexMap, catServers, catListening,
                   pendingAdds, masterEvent, procVars>>
    /\ \A j \in Slices \ {i} :
          catFrequency'[j] = catFrequency[j] /\ catMode'[j] = catMode[j]
    /\ (i \in sliceToInstance /\ i \in catServers)
          => catFrequency'[i] = slices'[i].frequency

\* C38: a status line of the radio that emits 'slice-updated' alone only
\* refreshes the cached frequency and mode of the slice's CAT server: the
\* step writes no command to the radio, which is all a CAT change event
\* does, and changes nothing else.
C38_PushOnlyRefreshesCat ==
    [][\A line \in StatusLines :
          ( /\ \/ slices' # slices
               \/ lastEvents' # lastEvents
               \/ commandSeq' # commandSeq
               \/ lastWrites' # lastWrites
               \/ pttState' # pttState
            /\ lastEvents'.events = <<"slice-updated">>
            /\ Data(line) )
          => refreshedOnly(lastEvents'.slice)]_vars

\* C38 witness: slice 0 has its decoder and its CAT server, the radio has
\* pushed a new frequency for it, the server holds that frequency, and the
\* two commands of the connect are still all that was written.
C38_Witness ==
    /\ lastEvents = [slice |-> 0, events |-> <<"slice-updated">>]
    /\ 0 \in sliceToInstance
    /\ 0 \in catServers
    /\ slices[0].frequency = 7074000
    /\ catFrequency[0] = 7074000
    /\ commandSeq = 3
    /\ Len(lastWrites) = 2

\* C39: whatever status lines the radio has pushed, a CAT server that
\* listens answers `get frequency` with a positive whole number of Hz.
C39_CatFrequencyPositive ==
    \A i \in catListening :
        /\ ~parseInt(HrdCatServer_processCommand(i, HrdState(i),
                                                 "get frequency").response).nan
        /\ parseInt(HrdCatServer_processCommand(i, HrdState(i),
                                                "get frequency").response).n > 0

\* Slices are allocated and QSOs are started until the manager is shut down.
NextShutdown ==
    \/ Connect
    \/ ConnectEvent
    \/ \E i \in Slices : Push(i, InUseMessage, TRUE)
    \/ \E i \in Slices : handleSliceAddedResumes(i, TRUE)
    \/ \E n \in Names : ToolExecuteQso(n)
    \/ Shutdown

SpecShutdown == Init /\ [][NextShutdown]_vars

====
